---- MODULE Spec2Model ----
(***************************************************************************)
(* Job-feed import pipeline: ImportService (orchestrator and queue worker  *)
(* handler), QueueService.addJob, CronService.executeScheduledImport and    *)
(* the POST /api/import/start route, over the Job and ImportLog stores.     *)
(*                                                                         *)
(* Node.js runs each handler synchronously up to its next await, so one    *)
(* action is the code from one await to the next.                          *)
(***************************************************************************)
EXTENDS Integers, Sequences, FiniteSets, TLC

\* ------------------------------------------------------------------ bounds
NumFeeds == 2        \* feed sources walked per pass (getFeedSources lists 9)
MaxPasses == 2       \* import passes started in one behaviour
MaxSkips == 1        \* scheduler ticks skipped while one pass runs
MaxBatch == 1        \* items in one fetched batch
MaxGuid == 2         \* distinct guids in the item universe
MaxLogs == 2         \* batches the feeds deliver in one behaviour
Concurrency == 2     \* parallel worker handler invocations (code default 5)
MaxRedeliveries == 1 \* re-deliveries of handled tasks in one behaviour

Passes == 1..MaxPasses
Feeds == 1..NumFeeds
Slots == 1..Concurrency

\* ------------------------------------------------------------- data shapes
Titles == {"t1", "t2"}
Descriptions == {"", "d1"}

\* A normalized feed item as the worker reads it (guid, title, description).
Items == [guid : 1..MaxGuid, title : Titles, description : Descriptions]

RECURSIVE SeqsUpTo(_, _)
SeqsUpTo(S, n) ==
  IF n = 0 THEN {<<>>}
  ELSE LET shorter == SeqsUpTo(S, n - 1)
       IN shorter \cup {Append(s, x) : s \in {t \in shorter : Len(t) = n - 1}, x \in S}

\* Every batch over the item universe.
Batches == SeqsUpTo(Items, MaxBatch)

\* The batches fetchFeed returns for a source in the pipeline: each source
\* publishes the posting with guid 1 and title "t1", with or without a description.
FeedItems == {it \in Items : it.guid = 1 /\ it.title = "t1"}
FeedBatches == SeqsUpTo(FeedItems, MaxBatch)

NoId == 0            \* null / undefined id

TimeoutMsg == "Queue add operation timed out after 20 seconds"
BrokerMsg == "broker error"
FetchMsg == "fetch failed"
BusyMsg == "Import is already running"
StoreMsg == "store error"

VARIABLES
  isRunning,         \* ImportService.isRunning
  currentImportId,   \* ImportService.currentImportId (NoId = null)
  pass,              \* per startImport call that passed the guard: its position
  importLogs,        \* ImportLog collection, _id = index
  jobs,              \* Job collection, in insertion order
  queue,             \* 'job-import' queue: tasks with their broker state
  workers,           \* handler invocations, one per concurrency slot
  events,            \* socket events emitted since the latest pass was triggered
  lastCall,          \* what the last trigger call answered
  redelivered,       \* re-deliveries made by the broker
  fetch,             \* the XMLFeedService.fetchFeed invocation in progress
  lastQuery          \* what the last status query answered

vars == <<isRunning, currentImportId, pass, importLogs, jobs, queue, workers,
          events, lastCall, redelivered, fetch, lastQuery>>

\* --------------------------------------------------------------- ImportLog
NewImportLog(feed, fetched) ==
  [sourceFeed |-> feed, totalFetched |-> fetched, totalImported |-> 0,
   newJobs |-> 0, updatedJobs |-> 0, failedJobs |-> <<>>,
   status |-> "running", error |-> "", queueJobId |-> NoId]

\* --------------------------------------------------------------- events
Event(type, id, feed) == [type |-> type, importId |-> id, currentFeed |-> feed]

emitImportStarted(evs, id) == Append(evs, Event("import-started", id, 0))
emitImportProgress(evs, id, i) == Append(evs, Event("import-progress", id, i))
emitImportCompleted(evs, id) == Append(evs, Event("import-completed", id, 0))
emitCronStatus(evs, type) == Append(evs, Event(type, NoId, 0))

\* --------------------------------------------------------------- Job store
NoDoc == [sourceFeed |-> NoId, originalGuid |-> NoId, title |-> "", description |-> "",
          status |-> "", rawData |-> <<>>]

\* A lookup by originalGuid alone.
findOne_ByGuidOnly(store, feed, guid) ==
  LET hits == {n \in 1..Len(store) : store[n].originalGuid = guid}
  IN IF hits = {} THEN 0 ELSE CHOOSE n \in hits : \A m \in hits : n <= m

\* Job.findOne({originalGuid, sourceFeed}): the first matching document, 0 if none.
findOne(store, feed, guid) ==
  LET hits == {n \in 1..Len(store) : store[n].sourceFeed = feed /\ store[n].originalGuid = guid}
  IN IF hits = {} THEN 0 ELSE CHOOSE n \in hits : \A m \in hits : n <= m

\* `a || b` on strings: the empty string is falsy.
OrElse(a, b) == IF a # "" THEN a ELSE b

\* The update branch: incoming fields that are non-empty replace the loaded ones.
mergeJob(existing, item) ==
  [existing EXCEPT !.title = OrElse(item.title, existing.title),
                   !.description = OrElse(item.description, existing.description),
                   !.rawData = item]

\* The insert branch: new Job({...}) with status 'active'.
newJob(feed, item) ==
  [sourceFeed |-> feed, originalGuid |-> item.guid, title |-> item.title,
   description |-> item.description, status |-> "active", rawData |-> item]

\* jobSchema validation run by save(): title and description are required, and
\* a required String rejects the empty string.
validJob(doc) == doc.title # "" /\ doc.description # ""

\* save() of a loaded document writes only the paths whose value changed.
saveExisting(store, n, loaded, doc) ==
  [store EXCEPT ![n] = [f \in DOMAIN doc |-> IF doc[f] # loaded[f] THEN doc[f] ELSE store[n][f]]]

\* save() of a new document inserts it.
saveNew(store, doc) == Append(store, doc)

\* --------------------------------------------------------------- worker slots
IdleWorker == [task |-> NoId, k |-> 0, phase |-> "idle", found |-> 0, loaded |-> NoDoc,
               processed |-> 0, newJobs |-> 0, updatedJobs |-> 0, failedJobs |-> <<>>]

\* --------------------------------------------------------------- passes
IdlePass == [pc |-> "idle", i |-> 0, log |-> NoId, results |-> <<>>,
             trigger |-> "none", summary |-> [importId |-> NoId, totalFeeds |-> 0],
             fetches |-> <<>>, err |-> "", batch |-> <<>>, job |-> NoId]

DonePass == [IdlePass EXCEPT !.pc = "done"]

InProgress(p) == pass[p].pc \notin {"idle", "done"}

\* The next unused pass slot.
FreshPass == CHOOSE p \in Passes : pass[p].pc = "idle" /\ \A q \in 1..(p - 1) : pass[q].pc # "idle"
HasFreshPass == \E p \in Passes : pass[p].pc = "idle"

\* No fetchFeed call is in progress.
IdleFetch == [pc |-> "idle"]

\* No status query has been made.
NoQuery == [op |-> "none"]

Init ==
  /\ isRunning = FALSE
  /\ currentImportId = NoId
  /\ pass = [p \in Passes |-> IdlePass]
  /\ importLogs = <<>>
  /\ jobs = <<>>
  /\ queue = <<>>
  /\ workers = [s \in Slots |-> IdleWorker]
  /\ events = <<>>
  /\ lastCall = [kind |-> "none", answer |-> "none", importId |-> NoId]
  /\ redelivered = 0
  /\ fetch = IdleFetch
  /\ lastQuery = NoQuery

\* ------------------------------------------------- ImportService.startImport
\* The guard of startImport: a pass is already running.
AlreadyRunning_NoGuard == FALSE

AlreadyRunning == isRunning

\* A guard placed after the import-started emit.
throwBusy_AfterEmit(pre) ==
  /\ events' = emitImportStarted(events \o pre, currentImportId)
  /\ UNCHANGED <<isRunning, currentImportId, pass>>

\* The guard throws before anything is assigned or emitted: only what the
\* caller emitted before the call is new.
throwBusy(pre) ==
  /\ events' = events \o pre
  /\ UNCHANGED <<isRunning, currentImportId, pass>>

\* A scheduler that triggers without looking at the flag.
importServiceIsRunning_NotRead == FALSE

\* The scheduler's own look at importService.isRunning before it triggers.
importServiceIsRunning == isRunning

\* One entry of the summary's results: processFeed's return value (with the
\* queue job id) or the per-feed catch's failure entry (with the error text).
Result(feed, ok, msg, job) ==
  [feed |-> feed, success |-> ok, error |-> msg, queueJobId |-> job]

\* startImport from its guard to its first await (the fetch of the first source):
\* a call made while a pass runs throws BusyMsg; otherwise the flag and the id
\* are set, import-started and the first import-progress are emitted and the
\* first source's fetch is issued.  pre are the events the caller emitted just
\* before the call.  The result of an earlier pass has been consumed by its
\* caller by then, and the event window restarts with the new pass.
startImport(trigger, pre) ==
  IF AlreadyRunning
  THEN throwBusy(pre)
  ELSE /\ HasFreshPass
       /\ LET p == FreshPass
          IN /\ isRunning' = TRUE
             /\ currentImportId' = p
             /\ events' = emitImportProgress(emitImportStarted(pre, p), p, 1)
             /\ pass' = [q \in Passes |->
                           IF q = p THEN [IdlePass EXCEPT !.pc = "fetch", !.i = 1,
                                                          !.trigger = trigger,
                                                          !.fetches = <<1>>]
                           ELSE IF pass[q].pc = "done" THEN DonePass
                           ELSE pass[q]]

\* A finally block that forgets the flag.
ClearRunning_KeepFlag ==
  /\ isRunning' = isRunning
  /\ currentImportId' = NoId

\* The finally block of startImport.
ClearRunning ==
  /\ isRunning' = FALSE
  /\ currentImportId' = NoId

\* A loop without the per-feed catch: the first failed source ends the pass.
NextFeed_AbortOnFailure(p, res, evs) ==
  LET results == Append(pass[p].results, res)
  IN IF pass[p].i < NumFeeds /\ res.success
     THEN /\ pass' = [pass EXCEPT ![p].results = results, ![p].pc = "fetch",
                                  ![p].i = pass[p].i + 1, ![p].log = NoId,
                                  ![p].batch = <<>>, ![p].job = NoId, ![p].err = "",
                                  ![p].fetches = Append(pass[p].fetches, pass[p].i + 1)]
          /\ events' = emitImportProgress(evs, currentImportId, pass[p].i + 1)
          /\ UNCHANGED <<isRunning, currentImportId>>
     ELSE /\ pass' = [pass EXCEPT ![p].results = results, ![p].pc = "done",
                                  ![p].log = NoId,
                                  ![p].batch = <<>>, ![p].job = NoId, ![p].err = "",
                                  ![p].summary = [importId |-> currentImportId,
                                                  totalFeeds |-> NumFeeds]]
          /\ events' = emitImportCompleted(evs, currentImportId)
          /\ ClearRunning

\* After source i of pass p has produced its result: the loop moves to the next
\* source (emitting its import-progress and issuing its fetch) or, after the last
\* source, emits import-completed, returns the summary and runs the finally block.
\* A pass started by the scheduler then emits the scheduler's own
\* import-completed.
NextFeed(p, res, evs) ==
  LET results == Append(pass[p].results, res)
  IN IF pass[p].i < NumFeeds
     THEN /\ pass' = [pass EXCEPT ![p].results = results, ![p].pc = "fetch",
                                  ![p].i = pass[p].i + 1, ![p].log = NoId,
                                  ![p].batch = <<>>, ![p].job = NoId, ![p].err = "",
                                  ![p].fetches = Append(pass[p].fetches, pass[p].i + 1)]
          /\ events' = emitImportProgress(evs, currentImportId, pass[p].i + 1)
          /\ UNCHANGED <<isRunning, currentImportId>>
     ELSE /\ pass' = [pass EXCEPT ![p].results = results, ![p].pc = "done",
                                  ![p].log = NoId,
                                  ![p].batch = <<>>, ![p].job = NoId, ![p].err = "",
                                  ![p].summary = [importId |-> currentImportId,
                                                  totalFeeds |-> NumFeeds]]
          /\ events' = IF pass[p].trigger = "cron"
                       THEN emitImportCompleted(emitImportCompleted(evs, currentImportId),
                                                currentImportId)
                       ELSE emitImportCompleted(evs, currentImportId)
          /\ ClearRunning

\* A route that reads currentImportId before it calls startImport.
PostStart_IdReadFirst ==
  /\ IF isRunning
     THEN /\ lastCall' = [kind |-> "manual", answer |-> "409", importId |-> NoId]
          /\ UNCHANGED <<isRunning, currentImportId, pass, events>>
     ELSE /\ startImport("manual", <<>>)
          /\ lastCall' = [kind |-> "manual", answer |-> "started",
                          importId |-> currentImportId]
  /\ UNCHANGED <<fetch, lastQuery, importLogs, jobs, queue, workers, redelivered>>

\* POST /api/import/start: 409 while a pass runs; otherwise startImport is called
\* in the background and the answer carries importService.currentImportId.
PostStart ==
  /\ IF isRunning
     THEN /\ lastCall' = [kind |-> "manual", answer |-> "409", importId |-> NoId]
          /\ UNCHANGED <<isRunning, currentImportId, pass, events>>
     ELSE /\ startImport("manual", <<>>)
          /\ lastCall' = [kind |-> "manual", answer |-> "started",
                          importId |-> currentImportId']
  /\ UNCHANGED <<fetch, lastQuery, importLogs, jobs, queue, workers, redelivered>>

\* Ticks already skipped in the current event window.
Skips == Cardinality({n \in 1..Len(events) : events[n].type = "cron-skipped"})

\* CronService.executeScheduledImport up to its await of startImport.
executeScheduledImport ==
  /\ IF importServiceIsRunning
     THEN /\ Skips < MaxSkips
          /\ events' = emitCronStatus(emitCronStatus(events, "cron-triggered"),
                                      "cron-skipped")
          /\ lastCall' = [kind |-> "cron", answer |-> "skipped", importId |-> NoId]
          /\ UNCHANGED <<isRunning, currentImportId, pass>>
     ELSE /\ startImport("cron",
                         emitImportStarted(emitCronStatus(<<>>, "cron-triggered"), NoId))
          /\ lastCall' = [kind |-> "cron", answer |-> "started",
                          importId |-> currentImportId']
  /\ UNCHANGED <<fetch, lastQuery, importLogs, jobs, queue, workers, redelivered>>

\* A caller that invokes importService.startImport() without looking at the
\* flag first: the call throws BusyMsg or starts a pass.
DirectStart ==
  /\ startImport("direct", <<>>)
  /\ lastCall' = IF pass' = pass
                 THEN [kind |-> "direct", answer |-> BusyMsg, importId |-> NoId]
                 ELSE [kind |-> "direct", answer |-> "started",
                       importId |-> currentImportId']
  /\ UNCHANGED <<fetch, lastQuery, importLogs, jobs, queue, workers, redelivered>>

\* ------------------------------------------------- ImportService.processFeed
\* fetchFeed returned success=false: processFeed throws, the per-feed catch of
\* startImport records the failure.  Nothing is persisted, nothing is enqueued.
FetchFailed(p) ==
  /\ pass[p].pc = "fetch"
  /\ NextFeed(p, Result(pass[p].i, FALSE, FetchMsg, NoId), events)
  /\ UNCHANGED <<fetch, lastQuery, importLogs, jobs, queue, workers, lastCall, redelivered>>

\* fetchFeed returned a batch and the new ImportLog (status 'running',
\* totalFetched = batch size) was saved; addJob is issued with the batch.
FetchedAndLogged(p) ==
  /\ pass[p].pc = "fetch"
  /\ Len(importLogs) < MaxLogs
  /\ \E batch \in FeedBatches :
       /\ importLogs' = Append(importLogs, NewImportLog(pass[p].i, Len(batch)))
       /\ pass' = [pass EXCEPT ![p].pc = "enqueue", ![p].log = Len(importLogs) + 1,
                               ![p].batch = batch]
  /\ UNCHANGED <<fetch, lastQuery, isRunning, currentImportId, jobs, queue, workers,
                 events, lastCall,
                 redelivered>>

\* fetchFeed returned a batch but saving the new ImportLog failed: processFeed
\* throws before anything is enqueued.
LogSaveFailed(p) ==
  /\ pass[p].pc = "fetch"
  /\ NextFeed(p, Result(pass[p].i, FALSE, StoreMsg, NoId), events)
  /\ UNCHANGED <<fetch, lastQuery, importLogs, jobs, queue, workers, lastCall, redelivered>>

\* A task enqueued without the id of its ImportLog.
Task_Untagged(feed, batch, log) ==
  [feedUrl |-> feed, jobData |-> batch, importLogId |-> NoId,
   state |-> "waiting", deliveries |-> 0]

\* ------------------------------------------------------ QueueService.addJob
\* A task as the broker holds it: the payload given to addJob and its state.
Task(feed, batch, log) ==
  [feedUrl |-> feed, jobData |-> batch, importLogId |-> log,
   state |-> "waiting", deliveries |-> 0]

\* queue.add answered before the 20 s timer: the task is in the queue and the
\* job (its id) is returned to processFeed.
AddJobReturned(p) ==
  /\ pass[p].pc = "enqueue"
  /\ queue' = Append(queue, Task(pass[p].i, pass[p].batch, pass[p].log))
  /\ pass' = [pass EXCEPT ![p].pc = "saveJobId", ![p].job = Len(queue) + 1,
                          ![p].batch = <<>>]
  /\ UNCHANGED <<fetch, lastQuery, isRunning, currentImportId, importLogs, jobs, workers,
                 events,
                 lastCall, redelivered>>

\* queue.add rejected (broker unreachable): addJob throws, nothing is queued.
AddJobRejected(p) ==
  /\ pass[p].pc = "enqueue"
  /\ pass' = [pass EXCEPT ![p].pc = "saveFailed", ![p].err = BrokerMsg,
                          ![p].batch = <<>>]
  /\ UNCHANGED <<fetch, lastQuery, isRunning, currentImportId, importLogs, jobs, queue,
                 workers,
                 events, lastCall, redelivered>>

\* An addJob without the race against the timer.
AddJobTimedOut_NoTimer(p) ==
  /\ FALSE
  /\ UNCHANGED vars

\* The 20 s timer won Promise.race: addJob throws TimeoutMsg.  queue.add itself is
\* not cancelled: the broker either never got the task or holds it (landed).
AddJobTimedOut(p) ==
  /\ pass[p].pc = "enqueue"
  /\ \E landed \in BOOLEAN :
       queue' = IF landed
                THEN Append(queue, Task(pass[p].i, pass[p].batch, pass[p].log))
                ELSE queue
  /\ pass' = [pass EXCEPT ![p].pc = "saveFailed", ![p].err = TimeoutMsg,
                          ![p].batch = <<>>]
  /\ UNCHANGED <<fetch, lastQuery, isRunning, currentImportId, importLogs, jobs, workers,
                 events,
                 lastCall, redelivered>>

\* processFeed after addJob returned: importLog.queueJobId = job.id is saved
\* (only the modified path is written) and the source's result is success.
QueueJobIdSaved(p) ==
  /\ pass[p].pc = "saveJobId"
  /\ importLogs' = [importLogs EXCEPT ![pass[p].log].queueJobId = pass[p].job]
  /\ NextFeed(p, Result(pass[p].i, TRUE, "", pass[p].job), events)
  /\ UNCHANGED <<fetch, lastQuery, jobs, queue, workers, lastCall, redelivered>>

\* processFeed's catch after addJob threw: status 'failed' and the error text are
\* saved, the error is rethrown and the per-feed catch records the failure.
FailureSaved(p) ==
  /\ pass[p].pc = "saveFailed"
  /\ importLogs' = [importLogs EXCEPT ![pass[p].log].status = "failed",
                                      ![pass[p].log].error = pass[p].err]
  /\ NextFeed(p, Result(pass[p].i, FALSE, pass[p].err, NoId), events)
  /\ UNCHANGED <<fetch, lastQuery, jobs, queue, workers, lastCall, redelivered>>

\* --------------------------------------- worker handler (ImportService.initialize)
\* The broker hands the oldest waiting task to a free handler slot.
FirstWaiting == CHOOSE t \in 1..Len(queue) :
                  /\ queue[t].state = "waiting"
                  /\ \A u \in 1..(t - 1) : queue[u].state # "waiting"
FirstIdle == CHOOSE s \in Slots :
               /\ workers[s].task = NoId
               /\ \A r \in 1..(s - 1) : workers[r].task # NoId

WorkerTake ==
  /\ \E t \in 1..Len(queue) : queue[t].state = "waiting"
  /\ \E s \in Slots : workers[s].task = NoId
  /\ LET t == FirstWaiting
         s == FirstIdle
     IN /\ queue' = [queue EXCEPT ![t].state = "active",
                                  ![t].deliveries = queue[t].deliveries + 1]
        /\ workers' = [workers EXCEPT ![s] =
             [IdleWorker EXCEPT !.task = t, !.k = 1,
                                !.phase = IF queue[t].jobData = <<>> THEN "log" ELSE "find"]]
  /\ UNCHANGED <<fetch, lastQuery, isRunning, currentImportId, pass, importLogs, jobs,
                 events, lastCall,
                 redelivered>>

\* existingJob = await Job.findOne(...): the invocation holds the loaded document.
Lookup(w, store, feed, item) ==
  LET n == findOne(store, feed, item.guid)
  IN [w EXCEPT !.found = n, !.loaded = IF n = 0 THEN NoDoc ELSE store[n]]

\* await Job.findOne(...) for item k of the batch.
FindExisting(s) ==
  /\ workers[s].phase = "find"
  /\ LET t == queue[workers[s].task]
         item == t.jobData[workers[s].k]
     IN workers' = [workers EXCEPT ![s] =
                      [Lookup(workers[s], jobs, t.feedUrl, item) EXCEPT !.phase = "save"]]
  /\ UNCHANGED <<fetch, lastQuery, isRunning, currentImportId, pass, importLogs, jobs,
                 queue, events,
                 lastCall, redelivered>>

ValidationMsg == "Job validation failed"

\* The entry the per-item catch pushes to failedJobs.
FailedJob(item, msg) ==
  [guid |-> item.guid, title |-> item.title, reason |-> "Processing error", error |-> msg]

\* processed++ at the top of the loop body, before the save.
Tally_CountBeforeSave(w, outcome, item) ==
  [w EXCEPT !.processed = @ + 1,
            !.newJobs = IF outcome = "new" THEN @ + 1 ELSE @,
            !.updatedJobs = IF outcome = "updated" THEN @ + 1 ELSE @,
            !.failedJobs = IF outcome = "failed"
                          THEN Append(@, FailedJob(item, ValidationMsg)) ELSE @]

\* The tallies after item k: processed only grows after a successful save; a
\* throwing save lands in the per-item catch and appends to failedJobs.
Tally(w, outcome, item) ==
  [w EXCEPT !.processed = IF outcome = "failed" THEN @ ELSE @ + 1,
            !.newJobs = IF outcome = "new" THEN @ + 1 ELSE @,
            !.updatedJobs = IF outcome = "updated" THEN @ + 1 ELSE @,
            !.failedJobs = IF outcome = "failed"
                          THEN Append(@, FailedJob(item, ValidationMsg)) ELSE @]

\* The outcome of item k given what findOne returned.
Outcome(found, doc) ==
  IF ~validJob(doc) THEN "failed" ELSE IF found = 0 THEN "new" ELSE "updated"

\* The document the handler saves for item k.
DocToSave(w, feed, item) ==
  IF w.found = 0 THEN newJob(feed, item) ELSE mergeJob(w.loaded, item)

\* The store after the handler's save() of doc.
StoreAfterSave(store, w, doc) ==
  IF ~validJob(doc) THEN store
  ELSE IF w.found = 0 THEN saveNew(store, doc)
  ELSE saveExisting(store, w.found, w.loaded, doc)

\* A handler that marks the ImportLog completed from inside the loop, at every
\* saved item.
SaveJob_MarksCompleted(s) ==
  /\ workers[s].phase = "save"
  /\ LET w == workers[s]
         t == queue[w.task]
         item == t.jobData[w.k]
         doc == DocToSave(w, t.feedUrl, item)
         w2 == Tally(w, Outcome(w.found, doc), item)
     IN /\ jobs' = StoreAfterSave(jobs, w, doc)
        /\ importLogs' = [importLogs EXCEPT ![t.importLogId].status = "completed"]
        /\ workers' = [workers EXCEPT ![s] =
             [w2 EXCEPT !.k = w.k + 1, !.found = 0, !.loaded = NoDoc,
                        !.phase = IF w.k < Len(t.jobData) THEN "find" ELSE "log"]]
  /\ UNCHANGED <<fetch, lastQuery, isRunning, currentImportId, pass, queue,
                 events, lastCall, redelivered>>

\* await save() for item k, then the loop moves on.
SaveJob(s) ==
  /\ workers[s].phase = "save"
  /\ LET w == workers[s]
         t == queue[w.task]
         item == t.jobData[w.k]
         doc == DocToSave(w, t.feedUrl, item)
         w2 == Tally(w, Outcome(w.found, doc), item)
     IN /\ jobs' = StoreAfterSave(jobs, w, doc)
        /\ workers' = [workers EXCEPT ![s] =
             [w2 EXCEPT !.k = w.k + 1, !.found = 0, !.loaded = NoDoc,
                        !.phase = IF w.k < Len(t.jobData) THEN "find" ELSE "log"]]
  /\ UNCHANGED <<fetch, lastQuery, isRunning, currentImportId, pass, importLogs, queue,
                 events, lastCall,
                 redelivered>>

\* After the loop: ImportLog.findById, the four tallies and status 'completed'
\* are assigned and saved; the handler returns and the broker completes the task.
writeResults(log, w) ==
  [log EXCEPT !.totalImported = w.processed, !.newJobs = w.newJobs,
              !.updatedJobs = w.updatedJobs, !.failedJobs = w.failedJobs,
              !.status = "completed"]

UpdateImportLog(s) ==
  /\ workers[s].phase = "log"
  /\ LET w == workers[s]
         id == queue[w.task].importLogId
     IN /\ importLogs' = [importLogs EXCEPT ![id] = writeResults(importLogs[id], w)]
        /\ queue' = [queue EXCEPT ![w.task].state = "completed"]
        /\ workers' = [workers EXCEPT ![s] = IdleWorker]
  /\ UNCHANGED <<fetch, lastQuery, isRunning, currentImportId, pass, jobs, events, lastCall,
                 redelivered>>

\* At-least-once delivery: the broker hands a handled task out again.
Redeliver(t) ==
  /\ queue[t].state = "completed"
  /\ redelivered < MaxRedeliveries
  /\ redelivered' = redelivered + 1
  /\ queue' = [queue EXCEPT ![t].state = "waiting"]
  /\ UNCHANGED <<fetch, lastQuery, isRunning, currentImportId, pass, importLogs, jobs,
                 workers, events,
                 lastCall>>

\* --------------------------------------------------------------- specification
PassStep(p) ==
  \/ FetchFailed(p)
  \/ FetchedAndLogged(p)
  \/ LogSaveFailed(p)
  \/ AddJobReturned(p)
  \/ AddJobRejected(p)
  \/ AddJobTimedOut(p)
  \/ QueueJobIdSaved(p)
  \/ FailureSaved(p)

WorkerStep ==
  \/ WorkerTake
  \/ \E s \in Slots : FindExisting(s)
  \/ \E s \in Slots : SaveJob(s)
  \/ \E s \in Slots : UpdateImportLog(s)
  \/ \E t \in 1..Len(queue) : Redeliver(t)

\* The pipeline with the scheduler stopped (CronService.stop): passes are started
\* through the route, workers consume the queue.
Next ==
  \/ PostStart
  \/ \E p \in Passes : PassStep(p)
  \/ WorkerStep

Spec == Init /\ [][Next]_vars

\* The triggers and the orchestrator with the queue paused (pauseQueue): tasks
\* wait in the queue.
NextPass ==
  \/ PostStart
  \/ executeScheduledImport
  \/ DirectStart
  \/ \E p \in Passes : PassStep(p)

SpecPass == Init /\ [][NextPass]_vars

\* ------------------------------------------- the handler run batch after batch
\* The store after one handler invocation has walked a whole batch with no
\* other invocation in between: findOne then save, item after item.
RECURSIVE RunBatch(_, _, _)
RunBatch(store, feed, batch) ==
  IF batch = <<>> THEN store
  ELSE LET item == Head(batch)
           w == Lookup(IdleWorker, store, feed, item)
       IN RunBatch(StoreAfterSave(store, w, DocToSave(w, feed, item)), feed, Tail(batch))

RunTask(store, t) == RunBatch(store, t.feedUrl, t.jobData)

\* The events one manual pass leaves in the window.
RECURSIVE ProgressEvents(_, _)
ProgressEvents(id, n) ==
  IF n = 0 THEN emitImportStarted(<<>>, id)
  ELSE emitImportProgress(ProgressEvents(id, n - 1), id, n)

\* Two batches wait in the queue, each with its ImportLog, after the passes that
\* fetched them have ended; the Job store is still empty.  The handler only
\* compares feed urls for equality, so the first batch is of source 1 and the
\* second of source 1 or of another source.
InitSeq ==
  /\ isRunning = FALSE
  /\ currentImportId = NoId
  /\ pass = [p \in Passes |-> DonePass]
  /\ jobs = <<>>
  /\ workers = [s \in Slots |-> IdleWorker]
  /\ events = emitImportCompleted(ProgressEvents(MaxPasses, NumFeeds), MaxPasses)
  /\ lastCall = [kind |-> "manual", answer |-> "started", importId |-> MaxPasses]
  /\ redelivered = 0
  /\ fetch = IdleFetch
  /\ lastQuery = NoQuery
  /\ \E f1 \in {1}, f2 \in {1, NumFeeds}, b1 \in Batches, b2 \in Batches :
       /\ queue = <<Task(f1, b1, 1), Task(f2, b2, 2)>>
       /\ importLogs = <<[NewImportLog(f1, Len(b1)) EXCEPT !.queueJobId = 1],
                         [NewImportLog(f2, Len(b2)) EXCEPT !.queueJobId = 2]>>

Quiet == \A s \in Slots : workers[s].task = NoId

\* A worker created with concurrency 1: the next task is taken when the
\* previous invocation has returned.
TakeWhenIdle == Quiet /\ WorkerTake

NextSeq ==
  \/ TakeWhenIdle
  \/ FindExisting(1)
  \/ SaveJob(1)
  \/ UpdateImportLog(1)
  \/ \E t \in 1..Len(queue) : Quiet /\ Redeliver(t)

SpecSeq == InitSeq /\ [][NextSeq]_vars

\* ------------------------------------------------------------ status queries
\* The outcome of a call: a returned value or a thrown error.
Returned(v) == [threw |-> FALSE, value |-> v]
Thrown(msg) == [threw |-> TRUE, message |-> msg]

RefusedMsg == "connect ECONNREFUSED"
SlowMsg == "Operation timed out after 3000ms"

\* The five count sub-queries of one stats call, in the order of Promise.all,
\* and what the broker does with each: it answers, rejects, or takes longer
\* than the 3 s the sub-query is given.
StatNames == <<"waiting", "active", "completed", "failed", "delayed">>
SubQueryOutcomes == {"ok", "rejected", "slow"}
BrokerAnswers == [1..Len(StatNames) -> SubQueryOutcomes]

\* queue.getWaiting(), getActive(), ...: the tasks in one state.
TasksIn(q, st) == {t \in 1..Len(q) : q[t].state = st}

\* getStatsWithTimeout: the sub-query raced against its 3 s timer.
getStatsWithTimeout(outcome, tasks) ==
  IF outcome = "ok" THEN Returned(tasks)
  ELSE IF outcome = "rejected" THEN Thrown(RefusedMsg)
  ELSE Thrown(SlowMsg)

\* Promise.all of the five sub-queries (the 15 s timer of the outer race cannot
\* win, each sub-query settles within 3 s): the five task lists, or the first
\* rejection, a broker rejection coming before a 3 s timer.
statsPromise(answers, q) ==
  LET subs == [k \in 1..Len(StatNames) |->
                 getStatsWithTimeout(answers[k], TasksIn(q, StatNames[k]))]
  IN IF \E k \in DOMAIN subs : subs[k].threw /\ subs[k].message = RefusedMsg
     THEN Thrown(RefusedMsg)
     ELSE IF \E k \in DOMAIN subs : subs[k].threw
     THEN Thrown(SlowMsg)
     ELSE Returned([k \in DOMAIN subs |-> subs[k].value])

ZeroStats == [waiting |-> 0, active |-> 0, completed |-> 0, failed |-> 0, delayed |-> 0]

\* What the queue service knows about the broker: the service of
\* queueService.js keeps no flag ("noflag"); the variant with redisAvailable
\* has found the broker at initialize ("available") or not ("unavailable").
RedisFlags == {"noflag", "available", "unavailable"}

\* A stats call whose catch block is missing.
queueServiceGetQueueStats_NoCatch(redis, answers, q) ==
  LET r == statsPromise(answers, q)
  IN IF r.threw THEN r
     ELSE Returned([k \in DOMAIN ZeroStats |->
                      Cardinality(r.value[CHOOSE n \in 1..Len(StatNames) : StatNames[n] = k])])

\* QueueService.getQueueStats.
queueServiceGetQueueStats(redis, answers, q) ==
  IF redis = "unavailable"
  THEN Returned([waiting |-> 0, active |-> 0, completed |-> 0, failed |-> 0,
                 delayed |-> 0, paused |-> FALSE, redisAvailable |-> FALSE])
  ELSE LET r == statsPromise(answers, q)
       IN IF r.threw
          THEN Returned(ZeroStats)
          ELSE Returned([waiting |-> Cardinality(r.value[1]),
                         active |-> Cardinality(r.value[2]),
                         completed |-> Cardinality(r.value[3]),
                         failed |-> Cardinality(r.value[4]),
                         delayed |-> Cardinality(r.value[5])])

\* ImportService.getQueueStats: the queue service's answer, or zeros from its
\* own catch block.
importServiceGetQueueStats(redis, answers, q) ==
  LET r == queueServiceGetQueueStats(redis, answers, q)
  IN IF r.threw THEN Returned(ZeroStats) ELSE r

\* ImportService.getImportStatus.
getImportStatus ==
  Returned([isRunning |-> isRunning, currentImportId |-> currentImportId,
            timestamp |-> IF isRunning THEN "now" ELSE "null"])

\* Why a stats call could not read the counts.
Cause(redis, answers) ==
  IF redis = "unavailable" THEN "unavailable"
  ELSE IF \E k \in DOMAIN answers : answers[k] = "rejected" THEN "rejected"
  ELSE IF \E k \in DOMAIN answers : answers[k] = "slow" THEN "slow"
  ELSE "none"

\* A caller asks both services for the queue statistics; a broker the service
\* has found unreachable at initialize rejects every sub-query.
QueryQueueStats ==
  /\ lastQuery = NoQuery
  /\ \E redis \in RedisFlags, answers \in BrokerAnswers :
       /\ redis = "unavailable" => \A k \in DOMAIN answers : answers[k] = "rejected"
       /\ lastQuery' = [op |-> "stats", redis |-> redis, cause |-> Cause(redis, answers),
                        ofQueueService |-> queueServiceGetQueueStats(redis, answers, queue),
                        ofImportService |-> importServiceGetQueueStats(redis, answers, queue)]
  /\ UNCHANGED <<isRunning, currentImportId, pass, importLogs, jobs, queue, workers,
                 events, lastCall, redelivered, fetch>>

\* A caller asks for the import status.
QueryImportStatus ==
  /\ lastQuery = NoQuery
  /\ lastQuery' = [op |-> "status", answer |-> getImportStatus]
  /\ UNCHANGED <<isRunning, currentImportId, pass, importLogs, jobs, queue, workers,
                 events, lastCall, redelivered, fetch>>

\* The answer of the query has gone out to the caller.
AnswerSent ==
  /\ lastQuery # NoQuery
  /\ lastQuery' = NoQuery
  /\ UNCHANGED <<isRunning, currentImportId, pass, importLogs, jobs, queue, workers,
                 events, lastCall, redelivered, fetch>>

\* No query is being answered.
NoneAsked == lastQuery = NoQuery

\* The pipeline while the broker takes every task (route trigger, pass,
\* workers), with a status query made in any of its states.
NextStats ==
  \/ NoneAsked /\ PostStart
  \/ NoneAsked /\ \E p \in Passes : FetchFailed(p)
  \/ NoneAsked /\ \E p \in Passes : FetchedAndLogged(p)
  \/ NoneAsked /\ \E p \in Passes : AddJobReturned(p)
  \/ NoneAsked /\ \E p \in Passes : QueueJobIdSaved(p)
  \/ NoneAsked /\ WorkerTake
  \/ NoneAsked /\ \E s \in Slots : FindExisting(s)
  \/ NoneAsked /\ \E s \in Slots : SaveJob(s)
  \/ NoneAsked /\ \E s \in Slots : UpdateImportLog(s)
  \/ QueryQueueStats
  \/ QueryImportStatus
  \/ AnswerSent

SpecStats == Init /\ [][NextStats]_vars

\* ------------------------------------------------- XMLFeedService.fetchFeed
MaxConfigRetries == 4   \* largest MAX_RETRIES the environment sets
MaxRequestTime == 1     \* longest request, in seconds
DefaultMaxRetries == 3  \* parseInt(process.env.MAX_RETRIES) || 3

\* process.env.MAX_RETRIES: unset (<<>>), or the text of a number (<<n>>).
EnvMaxRetries == {<<>>} \cup {<<n>> : n \in 0..MaxConfigRetries}

\* `parseInt(env) || 3`: NaN (unset) and 0 are falsy.
maxRetriesOf(env) ==
  IF env = <<>> THEN DefaultMaxRetries
  ELSE IF env[1] = 0 THEN DefaultMaxRetries
  ELSE env[1]

\* What response.data can be.  string / markup: it is a non-empty string / it
\* holds both '<' and '>'; parses: parseXML succeeds on it (at once or after the
\* aggressive cleaning); items: the jobs extractJobs gets from the parsed tree
\* (the entries under rss.channel.item, feed.entry or jobs.job that normalize);
\* blocks: the jobs extractJobsFromRawXML gets from the raw text (the matches of
\* the first of the <item>, <entry>, <job> patterns that has any).
Payloads ==
  {d \in [string : BOOLEAN, markup : BOOLEAN, parses : BOOLEAN,
          items : 0..MaxBatch, blocks : 0..MaxBatch] :
     /\ d.markup => d.string
     /\ d.parses => d.markup
     /\ d.items > 0 => d.parses
     /\ d.blocks > 0 => d.markup}

\* xmlData before the first download.
NoPayload == [string |-> FALSE, markup |-> FALSE, parses |-> FALSE, items |-> 0,
              blocks |-> 0, null |-> TRUE]

\* One answer to axios.get: no response (timeout, refused connection), a
\* status other than 200, or status 200 with a payload.
Responses ==
  {[kind |-> "network"], [kind |-> "http"]} \cup {[kind |-> "ok", data |-> d] : d \in Payloads}

NetworkMsg == "timeout of 30000ms exceeded"
HttpMsg == "HTTP 503: Service Unavailable"
NotXmlMsg == "Response is not valid XML data"
NoMarkupMsg == "Response does not contain XML content"
ParseMsg == "Failed to parse XML after cleaning attempts"

\* The try block of one attempt: the message of the error it throws, "" if it
\* returns.
attemptError(resp) ==
  IF resp.kind = "network" THEN NetworkMsg
  ELSE IF resp.kind = "http" THEN HttpMsg
  ELSE IF ~resp.data.string THEN NotXmlMsg
  ELSE IF ~resp.data.markup THEN NoMarkupMsg
  ELSE IF ~resp.data.parses THEN ParseMsg
  ELSE ""

\* xmlData after one attempt: response.data is assigned once the status is 200,
\* before the payload is looked at; otherwise the earlier value stays.
xmlDataAfter(xmlData, resp) == IF resp.kind = "ok" THEN resp.data ELSE xmlData

RECURSIVE Pow2(_)
Pow2(n) == IF n = 0 THEN 1 ELSE 2 * Pow2(n - 1)

\* A fixed pause between attempts.
backoffSeconds_Fixed(retries) == 2

\* Math.pow(2, retries) * 1000 ms, in seconds.
backoffSeconds(retries) == Pow2(retries)

\* The jobs of the fallback: extractJobsFromRawXML on xmlData when it is a
\* non-empty string, none otherwise.
fallbackJobs(xmlData) == IF xmlData.string THEN xmlData.blocks ELSE 0

\* A catch that rethrows once the attempts are used up.
failureValue_Rethrow(xmlData, msg, elapsed) == Thrown(msg)

\* The jobs array got from a payload that yields n jobs: the k-th entry stands
\* for the job of the k-th item.
JobsOf(n) == [k \in 1..n |-> k]

\* A catch that hands the fallback batch over and reports success only when
\* the last attempt itself got a payload.
failureValue_SuccessFromLastError(xmlData, msg, elapsed) ==
  LET batch == JobsOf(fallbackJobs(xmlData))
  IN Returned([jobs |-> batch, totalFetched |-> Len(batch), duration |-> elapsed,
               success |-> Len(batch) > 0 /\ msg = ParseMsg, error |-> msg,
               usedFallback |-> Len(batch) > 0])

\* The value returned from the catch of the last attempt.
failureValue(xmlData, msg, elapsed) ==
  LET batch == JobsOf(fallbackJobs(xmlData))
  IN Returned([jobs |-> batch, totalFetched |-> Len(batch), duration |-> elapsed,
               success |-> Len(batch) > 0, error |-> msg,
               usedFallback |-> Len(batch) > 0])

\* The value returned from the try block.
successValue(data, elapsed) ==
  LET batch == JobsOf(data.items)
  IN Returned([jobs |-> batch, totalFetched |-> Len(batch), duration |-> elapsed,
               success |-> TRUE, error |-> "", usedFallback |-> FALSE])

\* fetchFeed reached the end of its body without a return statement.
Undefined == Returned([undefined |-> TRUE])

\* The call fetchFeed(feed.url, feed.name) of processFeed for source i of pass
\* p, up to its first axios.get: retries = 0, xmlData = null, and the loop
\* condition is read.  The environment is the same for every call.
BeginFetch(p) ==
  /\ pass[p].pc = "fetch"
  /\ fetch.pc \in {"idle", "done"}
  /\ fetch.pc = "done" => fetch.key # <<p, pass[p].i>>
  /\ \E env \in EnvMaxRetries :
       /\ fetch.pc = "done" => env = fetch.env
       /\ LET started == [pc |-> "request", key |-> <<p, pass[p].i>>, env |-> env,
                          maxRetries |-> maxRetriesOf(env), retries |-> 0,
                          xmlData |-> NoPayload, attempts |-> 0, waits |-> <<>>,
                          lastError |-> "", elapsed |-> 0, result |-> Undefined]
          IN fetch' = IF 0 < started.maxRetries THEN started
                      ELSE [started EXCEPT !.pc = "done"]
  /\ UNCHANGED <<isRunning, currentImportId, pass, importLogs, jobs, queue, workers,
                 events, lastCall, redelivered, lastQuery>>

\* One pass of the loop body from axios.get on, for a response that arrives t
\* seconds after the request: the try block returns, or the catch counts the
\* failure and either returns the failure value (no attempt is left) or starts
\* the backoff sleep.
afterAttempt(f, resp, t) ==
  LET msg == attemptError(resp)
      xml == xmlDataAfter(f.xmlData, resp)
      now == f.elapsed + t
      tried == [f EXCEPT !.attempts = f.attempts + 1, !.xmlData = xml, !.elapsed = now]
      retries == f.retries + 1
  IN IF msg = ""
     THEN [tried EXCEPT !.pc = "done", !.result = successValue(resp.data, now)]
     ELSE IF retries >= f.maxRetries
     THEN [tried EXCEPT !.pc = "done", !.retries = retries, !.lastError = msg,
                        !.result = failureValue(xml, msg, now)]
     ELSE [tried EXCEPT !.pc = "sleep", !.retries = retries, !.lastError = msg,
                        !.waits = Append(f.waits, backoffSeconds(retries))]

FetchAttempt ==
  /\ fetch.pc = "request"
  /\ \E resp \in Responses, t \in 0..MaxRequestTime : fetch' = afterAttempt(fetch, resp, t)
  /\ UNCHANGED <<isRunning, currentImportId, pass, importLogs, jobs, queue, workers,
                 events, lastCall, redelivered, lastQuery>>

\* The backoff sleep is over: the loop condition is read again.
BackoffElapsed ==
  /\ fetch.pc = "sleep"
  /\ LET slept == [fetch EXCEPT !.elapsed = fetch.elapsed + fetch.waits[Len(fetch.waits)]]
     IN fetch' = IF fetch.retries < fetch.maxRetries
                 THEN [slept EXCEPT !.pc = "request"]
                 ELSE [slept EXCEPT !.pc = "done"]
  /\ UNCHANGED <<isRunning, currentImportId, pass, importLogs, jobs, queue, workers,
                 events, lastCall, redelivered, lastQuery>>

\* fetchFeed has returned to the processFeed call of source i of pass p.
FetchDoneFor(p) ==
  /\ pass[p].pc = "fetch"
  /\ fetch.pc = "done"
  /\ fetch.key = <<p, pass[p].i>>

\* processFeed reads success = false: it throws the result's error, and the
\* per-feed catch of startImport records the failure and moves on.
ProcessFeedFetchFailed(p) ==
  /\ FetchDoneFor(p)
  /\ ~fetch.result.threw
  /\ ~fetch.result.value.success
  /\ NextFeed(p, Result(pass[p].i, FALSE, fetch.result.value.error, NoId), events)
  /\ UNCHANGED <<fetch, lastQuery, importLogs, jobs, queue, workers, lastCall, redelivered>>

\* processFeed reads success = true: the ImportLog is saved with totalFetched
\* of the result and addJob is issued with the jobs.
ProcessFeedFetched(p) ==
  /\ FetchDoneFor(p)
  /\ ~fetch.result.threw
  /\ fetch.result.value.success
  /\ Len(importLogs) < MaxLogs
  /\ \E batch \in FeedBatches :
       /\ Len(batch) = fetch.result.value.totalFetched
       /\ importLogs' = Append(importLogs,
                               NewImportLog(pass[p].i, fetch.result.value.totalFetched))
       /\ pass' = [pass EXCEPT ![p].pc = "enqueue", ![p].log = Len(importLogs) + 1,
                               ![p].batch = batch]
  /\ UNCHANGED <<fetch, lastQuery, isRunning, currentImportId, jobs, queue, workers,
                 events, lastCall, redelivered>>

NextFetch ==
  \/ PostStart
  \/ \E p \in Passes : BeginFetch(p)
  \/ FetchAttempt
  \/ BackoffElapsed
  \/ \E p \in Passes : ProcessFeedFetchFailed(p)
  \/ \E p \in Passes : ProcessFeedFetched(p)
  \/ \E p \in Passes : AddJobReturned(p)
  \/ \E p \in Passes : QueueJobIdSaved(p)

SpecFetch == Init /\ [][NextFetch]_vars

\* ----------------------------------------- the handler with a failing store
MaxItems == 2        \* items in one batch handed to the handler
MaxAttempts == 3     \* defaultJobOptions.attempts

\* The batches of the handler runs below: postings of one title, with either
\* guid, with or without a description.
WorkItems == {it \in Items : it.title = "t1"}
WorkBatches == SeqsUpTo(WorkItems, MaxItems)

\* A per-item catch that gives the batch up: the loop is left for the
\* ImportLog update.
catchJobError_LeavesLoop(w, n, item, msg) ==
  [w EXCEPT !.failedJobs = Append(@, FailedJob(item, msg)),
            !.k = n + 1, !.found = 0, !.loaded = NoDoc, !.phase = "log"]

\* The per-item catch for an error other than a validation error: the entry is
\* pushed and the loop goes to the next item of the n in the batch.
catchJobError(w, n, item, msg) ==
  [w EXCEPT !.failedJobs = Append(@, FailedJob(item, msg)),
            !.k = w.k + 1, !.found = 0, !.loaded = NoDoc,
            !.phase = IF w.k < n THEN "find" ELSE "log"]

\* Job.findOne rejects for item k (the store is unreachable or times out).
FindRejected(s) ==
  /\ workers[s].phase = "find"
  /\ LET w == workers[s]
         t == queue[w.task]
     IN workers' = [workers EXCEPT ![s] =
                      catchJobError(w, Len(t.jobData), t.jobData[w.k], StoreMsg)]
  /\ UNCHANGED <<isRunning, currentImportId, pass, importLogs, jobs, queue, events,
                 lastCall, redelivered, fetch, lastQuery>>

\* save() rejects for item k after validation (the write fails): nothing is
\* stored.
SaveRejected(s) ==
  /\ workers[s].phase = "save"
  /\ LET w == workers[s]
         t == queue[w.task]
     IN /\ validJob(DocToSave(w, t.feedUrl, t.jobData[w.k]))
        /\ workers' = [workers EXCEPT ![s] =
                         catchJobError(w, Len(t.jobData), t.jobData[w.k], StoreMsg)]
  /\ UNCHANGED <<isRunning, currentImportId, pass, importLogs, jobs, queue, events,
                 lastCall, redelivered, fetch, lastQuery>>

\* ImportLog.findById or importLog.save() rejects after the loop: the handler
\* rethrows and the broker retries the task, or fails it after its last attempt.
LogWriteRejected(s) ==
  /\ workers[s].phase = "log"
  /\ LET w == workers[s]
     IN /\ queue' = [queue EXCEPT ![w.task].state =
                       IF queue[w.task].deliveries < MaxAttempts THEN "waiting" ELSE "failed"]
        /\ workers' = [workers EXCEPT ![s] = IdleWorker]
  /\ UNCHANGED <<isRunning, currentImportId, pass, importLogs, jobs, events,
                 lastCall, redelivered, fetch, lastQuery>>

\* One batch waits in the queue with its ImportLog, after the pass that
\* fetched it has ended; the Job store is still empty.
InitWorker ==
  /\ isRunning = FALSE
  /\ currentImportId = NoId
  /\ pass = [p \in Passes |-> DonePass]
  /\ jobs = <<>>
  /\ workers = [s \in Slots |-> IdleWorker]
  /\ events = emitImportCompleted(ProgressEvents(MaxPasses, NumFeeds), MaxPasses)
  /\ lastCall = [kind |-> "manual", answer |-> "started", importId |-> MaxPasses]
  /\ redelivered = 0
  /\ fetch = IdleFetch
  /\ lastQuery = NoQuery
  /\ \E b \in WorkBatches :
       /\ queue = <<Task(1, b, 1)>>
       /\ importLogs = <<[NewImportLog(1, Len(b)) EXCEPT !.queueJobId = 1]>>

NextWorker ==
  \/ WorkerTake
  \/ \E s \in Slots : FindExisting(s)
  \/ \E s \in Slots : FindRejected(s)
  \/ \E s \in Slots : SaveJob(s)
  \/ \E s \in Slots : SaveRejected(s)
  \/ \E s \in Slots : UpdateImportLog(s)
  \/ \E s \in Slots : LogWriteRejected(s)
  \/ \E t \in 1..Len(queue) : Redeliver(t)

SpecWorker == InitWorker /\ [][NextWorker]_vars

\* --------------------------------------------- the update branch, field by field
\* A Job document with the paths the update branch can touch and those it must
\* leave alone.
JobDocs ==
  [sourceFeed : {1}, originalGuid : {1}, title : {"t1"}, description : {"d1"},
   location : {"", "l1"}, type : {"full-time", "contract"}, applicationUrl : {"", "u1"},
   status : {"active", "expired"}, views : {0, 1}, rawData : {<<>>}]

\* An item as normalizeJob returns it and the queue delivers it: the employment
\* type is under jobType and the link under url.
NormalizedItems ==
  [guid : {1}, title : {"", "t2"}, description : {"", "d2"}, location : {"", "l2"},
   jobType : {"", "contract"}, url : {"", "u2"}]

\* jobItem.<name>: a property the item does not have reads as undefined, which
\* `||` treats like the empty string.
Prop(item, name) == IF name \in DOMAIN item THEN item[name] ELSE ""

\* The assignments of the update branch: existingJob.x = jobItem.x || existingJob.x
\* for each path, then rawData.
updateExistingJob(existing, jobItem) ==
  [existing EXCEPT !.title = OrElse(Prop(jobItem, "title"), @),
                   !.description = OrElse(Prop(jobItem, "description"), @),
                   !.location = OrElse(Prop(jobItem, "location"), @),
                   !.type = OrElse(Prop(jobItem, "type"), @),
                   !.applicationUrl = OrElse(Prop(jobItem, "applicationUrl"), @),
                   !.rawData = jobItem]

\* await existingJob.save() for item k of an update, then the loop moves on.
SaveUpdated(s) ==
  /\ workers[s].phase = "save"
  /\ workers[s].found # 0
  /\ LET w == workers[s]
         t == queue[w.task]
         item == t.jobData[w.k]
         doc == updateExistingJob(w.loaded, item)
         w2 == Tally(w, Outcome(w.found, doc), item)
     IN /\ jobs' = StoreAfterSave(jobs, w, doc)
        /\ workers' = [workers EXCEPT ![s] =
             [w2 EXCEPT !.k = w.k + 1, !.found = 0, !.loaded = NoDoc,
                        !.phase = IF w.k < Len(t.jobData) THEN "find" ELSE "log"]]
  /\ UNCHANGED <<fetch, lastQuery, isRunning, currentImportId, pass, importLogs, queue,
                 events, lastCall, redelivered>>

\* One stored Job and, in the queue, a one-item batch of the same source with
\* the same guid.
InitMerge ==
  /\ isRunning = FALSE
  /\ currentImportId = NoId
  /\ pass = [p \in Passes |-> DonePass]
  /\ workers = [s \in Slots |-> IdleWorker]
  /\ events = emitImportCompleted(ProgressEvents(MaxPasses, NumFeeds), MaxPasses)
  /\ lastCall = [kind |-> "manual", answer |-> "started", importId |-> MaxPasses]
  /\ redelivered = 0
  /\ fetch = IdleFetch
  /\ lastQuery = NoQuery
  /\ \E doc \in JobDocs, item \in NormalizedItems :
       /\ jobs = <<doc>>
       /\ queue = <<Task(1, <<item>>, 1)>>
       /\ importLogs = <<[NewImportLog(1, 1) EXCEPT !.queueJobId = 1]>>

NextMerge ==
  \/ WorkerTake
  \/ \E s \in Slots : FindExisting(s)
  \/ \E s \in Slots : SaveUpdated(s)
  \/ \E s \in Slots : UpdateImportLog(s)

SpecMerge == InitMerge /\ [][NextMerge]_vars

\* ------------------------------------------ the broker's retries of a task
BackoffBaseSeconds == 2   \* defaultJobOptions.backoff.delay = 2000 ms

\* A backoff of the base delay whatever the attempt.
brokerBackoff_Fixed(attemptsMade) == BackoffBaseSeconds

\* backoff {type: 'exponential', delay: 2000}: the broker waits
\* 2^(attemptsMade - 1) * delay before it runs the task again.
brokerBackoff(attemptsMade) == Pow2(attemptsMade - 1) * BackoffBaseSeconds

\* A task with the record of the delays the broker has put on it.
DelayedTask(feed, batch, log) ==
  [feedUrl |-> feed, jobData |-> batch, importLogId |-> log,
   state |-> "waiting", deliveries |-> 0, delays |-> <<>>]

\* The handler's outer catch rethrows (the ImportLog update rejected): the
\* broker counts the attempt and delays the task for its backoff, or fails it
\* when its attempts are used up.
HandlerThrew(s) ==
  /\ workers[s].phase = "log"
  /\ LET t == workers[s].task
         attemptsMade == queue[t].deliveries
     IN /\ queue' = IF attemptsMade < MaxAttempts
                    THEN [queue EXCEPT ![t].state = "delayed",
                                       ![t].delays = Append(@, brokerBackoff(attemptsMade))]
                    ELSE [queue EXCEPT ![t].state = "failed"]
        /\ workers' = [workers EXCEPT ![s] = IdleWorker]
  /\ UNCHANGED <<isRunning, currentImportId, pass, importLogs, jobs, events,
                 lastCall, redelivered, fetch, lastQuery>>

\* The backoff of a delayed task is over: it waits for a handler again.
BackoffOver(t) ==
  /\ queue[t].state = "delayed"
  /\ queue' = [queue EXCEPT ![t].state = "waiting"]
  /\ UNCHANGED <<isRunning, currentImportId, pass, importLogs, jobs, workers, events,
                 lastCall, redelivered, fetch, lastQuery>>

\* Two batches wait in the queue, each with its ImportLog; the Job store is
\* empty.
InitRetry ==
  /\ isRunning = FALSE
  /\ currentImportId = NoId
  /\ pass = [p \in Passes |-> DonePass]
  /\ jobs = <<>>
  /\ workers = [s \in Slots |-> IdleWorker]
  /\ events = emitImportCompleted(ProgressEvents(MaxPasses, NumFeeds), MaxPasses)
  /\ lastCall = [kind |-> "manual", answer |-> "started", importId |-> MaxPasses]
  /\ redelivered = 0
  /\ fetch = IdleFetch
  /\ lastQuery = NoQuery
  /\ \E b1 \in FeedBatches, b2 \in FeedBatches :
       /\ queue = <<DelayedTask(1, b1, 1), DelayedTask(NumFeeds, b2, 2)>>
       /\ importLogs = <<[NewImportLog(1, Len(b1)) EXCEPT !.queueJobId = 1],
                         [NewImportLog(NumFeeds, Len(b2)) EXCEPT !.queueJobId = 2]>>

NextRetry ==
  \/ WorkerTake
  \/ \E s \in Slots : FindExisting(s)
  \/ \E s \in Slots : SaveJob(s)
  \/ \E s \in Slots : UpdateImportLog(s)
  \/ \E s \in Slots : HandlerThrew(s)
  \/ \E t \in 1..Len(queue) : BackoffOver(t)

SpecRetry == InitRetry /\ [][NextRetry]_vars

\* ------------------------------------------------ QueueService.createWorker
MaxCreateCalls == 3   \* createWorker calls in one behaviour

\* The tasks put in the queue in one behaviour: one more than a worker runs at
\* a time.
MaxQueued == Concurrency + 1

\* A live Worker object with the tasks its handler invocations are running.
NewWorker == [closed |-> FALSE, running |-> {}]

\* A createWorker that builds a Worker at every call.
createWorker_NoLookup(registry) ==
  [has |-> TRUE, objects |-> Append(registry.objects, NewWorker),
   calls |-> registry.calls + 1, returned |-> Len(registry.objects) + 1]

\* createWorker('job-import', processor, options): the Worker kept in
\* this.workers is returned when there is one; otherwise a Worker is built and
\* kept.  returned is the object given back.
createWorker(registry) ==
  IF registry.has
  THEN [registry EXCEPT !.calls = @ + 1,
                        !.returned = CHOOSE o \in 1..Len(registry.objects) :
                                       ~registry.objects[o].closed]
  ELSE [has |-> TRUE, objects |-> Append(registry.objects, NewWorker),
        calls |-> registry.calls + 1, returned |-> Len(registry.objects) + 1]

\* ImportService.initialize calls createWorker.
CreateWorkerCalled ==
  /\ workers.calls < MaxCreateCalls
  /\ workers' = createWorker(workers)
  /\ UNCHANGED <<isRunning, currentImportId, pass, importLogs, jobs, queue, events,
                 lastCall, redelivered, fetch, lastQuery>>

\* A pass puts a batch in the queue.
TaskQueued ==
  /\ Len(queue) < MaxQueued
  /\ \E batch \in FeedBatches :
       /\ queue' = Append(queue, Task(1, batch, Len(importLogs) + 1))
       /\ importLogs' = Append(importLogs,
                               [NewImportLog(1, Len(batch)) EXCEPT !.queueJobId = Len(queue) + 1])
  /\ UNCHANGED <<isRunning, currentImportId, pass, jobs, workers, events,
                 lastCall, redelivered, fetch, lastQuery>>

\* A Worker object that runs fewer than `concurrency` invocations starts one on
\* the oldest waiting task.
InvocationStarted(o) ==
  /\ ~workers.objects[o].closed
  /\ Cardinality(workers.objects[o].running) < Concurrency
  /\ \E t \in 1..Len(queue) : queue[t].state = "waiting"
  /\ LET t == FirstWaiting
     IN /\ queue' = [queue EXCEPT ![t].state = "active",
                                  ![t].deliveries = queue[t].deliveries + 1]
        /\ workers' = [workers EXCEPT !.objects[o].running = @ \cup {t}]
  /\ UNCHANGED <<isRunning, currentImportId, pass, importLogs, jobs, events,
                 lastCall, redelivered, fetch, lastQuery>>

\* An invocation returns.
InvocationReturned(o, t) ==
  /\ t \in workers.objects[o].running
  /\ queue' = [queue EXCEPT ![t].state = "completed"]
  /\ workers' = [workers EXCEPT !.objects[o].running = @ \ {t}]
  /\ UNCHANGED <<isRunning, currentImportId, pass, importLogs, jobs, events,
                 lastCall, redelivered, fetch, lastQuery>>

\* QueueService.close: worker.close() resolves once the Worker's invocations
\* have returned, then this.workers is cleared.
WorkersClosed ==
  /\ workers.has
  /\ workers.calls < MaxCreateCalls
  /\ \A o \in 1..Len(workers.objects) : workers.objects[o].running = {}
  /\ workers' = [workers EXCEPT
                   !.has = FALSE,
                   !.objects = [o \in 1..Len(workers.objects) |->
                                  [workers.objects[o] EXCEPT !.closed = TRUE]]]
  /\ UNCHANGED <<isRunning, currentImportId, pass, importLogs, jobs, queue, events,
                 lastCall, redelivered, fetch, lastQuery>>

\* The queue service after its constructor: this.workers is an empty Map.
InitRegistry ==
  /\ isRunning = FALSE
  /\ currentImportId = NoId
  /\ pass = [p \in Passes |-> IdlePass]
  /\ importLogs = <<>>
  /\ jobs = <<>>
  /\ queue = <<>>
  /\ workers = [has |-> FALSE, objects |-> <<>>, calls |-> 0, returned |-> 0]
  /\ events = <<>>
  /\ lastCall = [kind |-> "none", answer |-> "none", importId |-> NoId]
  /\ redelivered = 0
  /\ fetch = IdleFetch
  /\ lastQuery = NoQuery

NextRegistry ==
  \/ CreateWorkerCalled
  \/ TaskQueued
  \/ \E o \in 1..Len(workers.objects) : InvocationStarted(o)
  \/ \E o \in 1..Len(workers.objects), t \in 1..Len(queue) : InvocationReturned(o, t)
  \/ WorkersClosed

SpecRegistry == InitRegistry /\ [][NextRegistry]_vars

\* ------------------------------------ XMLFeedService: the two heuristics
\* A string is the sequence of its characters.
UpperCase == <<"A", "B", "C", "D", "E", "F", "G", "H", "I", "J", "K", "L", "M", "N", "O", "P", "Q", "R", "S", "T", "U", "V", "W", "X", "Y", "Z">>
LowerCase == <<"a", "b", "c", "d", "e", "f", "g", "h", "i", "j", "k", "l", "m", "n", "o", "p", "q", "r", "s", "t", "u", "v", "w", "x", "y", "z">>

\* String.prototype.toLowerCase.
toLowerCase(s) ==
  [i \in 1..Len(s) |->
     IF \E n \in 1..Len(UpperCase) : UpperCase[n] = s[i]
     THEN LowerCase[CHOOSE n \in 1..Len(UpperCase) : UpperCase[n] = s[i]]
     ELSE s[i]]

\* String.prototype.includes: keyword is a substring of text.
includes(text, keyword) ==
  \E i \in 0..(Len(text) - Len(keyword)) : SubSeq(text, i + 1, i + Len(keyword)) = keyword

\* The template string `${title} ${description}`.
titleAndDescription(title, description) == title \o <<" ">> \o description

\* The keyword list of detectRemoteWork.
remoteKeywords ==
  {<<"r", "e", "m", "o", "t", "e">>,
   <<"w", "o", "r", "k", " ", "f", "r", "o", "m", " ", "h", "o", "m", "e">>,
   <<"w", "f", "h">>,
   <<"t", "e", "l", "e", "c", "o", "m", "m", "u", "t", "e">>,
   <<"v", "i", "r", "t", "u", "a", "l">>,
   <<"h", "o", "m", "e", "-", "b", "a", "s", "e", "d">>,
   <<"h", "o", "m", "e", " ", "b", "a", "s", "e", "d">>,
   <<"a", "n", "y", "w", "h", "e", "r", "e">>,
   <<"d", "i", "s", "t", "r", "i", "b", "u", "t", "e", "d">>}

\* A detectRemoteWork that looks at the title only.
detectRemoteWork_TitleOnly(title, description) ==
  \E keyword \in remoteKeywords : includes(toLowerCase(title), keyword)

\* detectRemoteWork: some keyword is in the lower-cased text.
detectRemoteWork(title, description) ==
  LET text == toLowerCase(titleAndDescription(title, description))
  IN \E keyword \in remoteKeywords : includes(text, keyword)

\* The keywords of the four branches of detectExperienceLevel.
seniorKeywords ==
  {<<"s", "e", "n", "i", "o", "r">>,
   <<"l", "e", "a", "d">>,
   <<"p", "r", "i", "n", "c", "i", "p", "a", "l">>}
midKeywords ==
  {<<"m", "i", "d">>,
   <<"i", "n", "t", "e", "r", "m", "e", "d", "i", "a", "t", "e">>,
   <<"e", "x", "p", "e", "r", "i", "e", "n", "c", "e", "d">>}
entryKeywords ==
  {<<"e", "n", "t", "r", "y">>,
   <<"j", "u", "n", "i", "o", "r">>,
   <<"g", "r", "a", "d", "u", "a", "t", "e">>,
   <<"i", "n", "t", "e", "r", "n">>}
executiveKeywords ==
  {<<"e", "x", "e", "c", "u", "t", "i", "v", "e">>,
   <<"d", "i", "r", "e", "c", "t", "o", "r">>,
   <<"v", "p">>,
   <<"c", "h", "i", "e", "f">>}

includesAny(text, keywords) == \E keyword \in keywords : includes(text, keyword)

\* detectExperienceLevel: the if / else-if chain in the order of the code.
detectExperienceLevel(title, description) ==
  LET text == toLowerCase(titleAndDescription(title, description))
  IN IF includesAny(text, seniorKeywords) THEN "senior"
     ELSE IF includesAny(text, midKeywords) THEN "mid"
     ELSE IF includesAny(text, entryKeywords) THEN "entry"
     ELSE IF includesAny(text, executiveKeywords) THEN "executive"
     ELSE "mid"

\* Titles and descriptions of postings.
TitleTexts ==
  {<<"S", "e", "n", "i", "o", "r", " ", "D", "i", "r", "e", "c", "t", "o", "r">>,
   <<"J", "u", "n", "i", "o", "r", " ", "D", "i", "r", "e", "c", "t", "o", "r">>,
   <<"E", "x", "p", "e", "r", "i", "e", "n", "c", "e", "d", " ", "V", "P">>,
   <<"C", "h", "i", "e", "f", " ", "o", "f", " ", "S", "t", "a", "f", "f">>,
   <<"I", "N", "T", "E", "R", "N">>,
   <<"D", "e", "v", "e", "l", "o", "p", "e", "r">>,
   <<"W", "o", "r", "k", " ", "f", "r", "o", "m">>,
   <<"H", "o", "m", "e", " ", "B", "a", "s", "e", "d", " ", "N", "u", "r", "s", "e">>,
   <<"I", "n", "t", "e", "r", "n", "a", "t", "i", "o", "n", "a", "l", " ", "S", "a", "l", "e", "s">>,
   <<"P", "r", "i", "n", "c", "i", "p", "a", "l", " ", "E", "n", "g", "i", "n", "e", "e", "r">>,
   <<"V", "i", "r", "t", "u", "a", "l", " ", "A", "s", "s", "i", "s", "t", "a", "n", "t">>}
DescriptionTexts ==
  {<<>>,
   <<"h", "o", "m", "e">>,
   <<"m", "i", "d", " ", "l", "e", "v", "e", "l", " ", "r", "o", "l", "e">>,
   <<"F", "u", "l", "l", "y", " ", "R", "E", "M", "O", "T", "E">>,
   <<"L", "e", "a", "d", " ", "a", " ", "t", "e", "a", "m">>,
   <<"f", "o", "r", " ", "g", "r", "a", "d", "u", "a", "t", "e", "s">>,
   <<"W", "F", "H", " ", "t", "w", "i", "c", "e", " ", "a", " ", "w", "e", "e", "k">>,
   <<"h", "o", "m", "e", "-", "b", "a", "s", "e", "d">>,
   <<"j", "o", "i", "n", " ", "u", "s">>}

\* normalizeJob is at its two detect calls for one title and description.
InitDetect ==
  /\ isRunning = FALSE
  /\ currentImportId = NoId
  /\ pass = [p \in Passes |-> IdlePass]
  /\ importLogs = <<>>
  /\ jobs = <<>>
  /\ queue = <<>>
  /\ workers = [s \in Slots |-> IdleWorker]
  /\ events = <<>>
  /\ redelivered = 0
  /\ fetch = IdleFetch
  /\ lastQuery = NoQuery
  /\ \E title \in TitleTexts, description \in DescriptionTexts :
       lastCall = [kind |-> "detect", title |-> title, description |-> description,
                   done |-> FALSE, isRemote |-> FALSE, experienceLevel |-> ""]

\* const isRemote = this.detectRemoteWork(...); const experienceLevel =
\* this.detectExperienceLevel(...).
Detect ==
  /\ lastCall.kind = "detect" /\ ~lastCall.done
  /\ lastCall' = [lastCall EXCEPT
                    !.done = TRUE,
                    !.isRemote = detectRemoteWork(lastCall.title, lastCall.description),
                    !.experienceLevel =
                       detectExperienceLevel(lastCall.title, lastCall.description)]
  /\ UNCHANGED <<isRunning, currentImportId, pass, importLogs, jobs, queue, workers,
                 events, redelivered, fetch, lastQuery>>

SpecDetect == InitDetect /\ [][Detect]_vars

\* ------------------------- XMLFeedService: parsed items, normalizeJob, extractJobs
\* Items of a feed document.
MaxFeedItems == 2

\* A parsed value: undefined (no such element), a string, or the object the
\* parser builds for an element with child elements (created without a
\* prototype, so it has no toString).
UndefinedValue == [t |-> "undefined", s |-> <<>>]
Str(s) == [t |-> "string", s |-> s]
ElementObject == [t |-> "object", s |-> <<>>]

\* /^\s*$/ over the characters used here.
isBlank(s) == \A i \in 1..Len(s) : s[i] = " "

\* String.prototype.trim.
trim(s) ==
  IF isBlank(s) THEN <<>>
  ELSE LET first == CHOOSE i \in 1..Len(s) : s[i] # " " /\ \A j \in 1..(i - 1) : s[j] = " "
           last == CHOOSE i \in 1..Len(s) : s[i] # " " /\ \A j \in (i + 1)..Len(s) : s[j] = " "
       IN SubSeq(s, first, last)

\* replace(/\s{2,}/g, " "): every run of two or more blanks becomes one blank.
RECURSIVE collapseBlanks(_)
collapseBlanks(s) ==
  IF Len(s) < 2 THEN s
  ELSE IF s[1] = " " /\ s[2] = " " THEN collapseBlanks(Tail(s))
  ELSE <<Head(s)>> \o collapseBlanks(Tail(s))

\* An element as it stands in the document: absent, text (possibly empty or
\* padded), or child elements.
NoElement == [t |-> "absent", s |-> <<>>]
Text(s) == [t |-> "text", s |-> s]
Children == [t |-> "children", s |-> <<>>]

\* The value the parser stores for an element under the options explicitArray
\* false, ignoreAttrs, trim, normalize and emptyTag '': text that is not blank
\* is trimmed and normalized; an element with blank text counts as empty, and
\* with emptyTag '' the parser stores the blank text itself.
elementValue(element) ==
  IF element.t = "absent" THEN UndefinedValue
  ELSE IF element.t = "children" THEN ElementObject
  ELSE IF isBlank(element.s) THEN Str(element.s)
  ELSE Str(trim(collapseBlanks(trim(element.s))))

\* The elements of an <item> that the documents here carry.
ItemElements == {"guid", "link", "title", "description"}

\* parseStringPromise for the items of the document.
parseXML(document) ==
  [i \in 1..Len(document) |-> [e \in ItemElements |-> elementValue(document[i][e])]]

\* item.<name>
Get(item, name) == IF name \in DOMAIN item THEN item[name] ELSE UndefinedValue

\* JavaScript truthiness of a parsed value.
truthy(v) == v.t = "object" \/ (v.t = "string" /\ v.s # <<>>)

\* a || b || ... || last
RECURSIVE firstTruthy(_, _)
firstTruthy(operands, last) ==
  IF operands = <<>> THEN last
  ELSE IF truthy(Head(operands)) THEN Head(operands)
  ELSE firstTruthy(Tail(operands), last)

\* `${feedUrl}-${Date.now()}-${Math.random()}` with the clock and the draw at 0.
synthGuid(feedUrl) == feedUrl \o <<"-", "0", "-", "0">>

\* Converting the value to a string throws a TypeError (toString call or
\* template literal on an object without prototype).
toStringThrows(v) == v.t = "object"

\* What normalizeJob returns from its catch block.
Null == [null |-> TRUE]
isNull(job) == "null" \in DOMAIN job

UntitledJob == <<"U", "n", "t", "i", "t", "l", "e", "d", " ", "J", "o", "b">>
UnknownCompany == <<"U", "n", "k", "n", "o", "w", "n", " ", "C", "o", "m", "p", "a", "n", "y">>

\* normalizeJob: the fallback chains, the date, the tags, the two heuristics
\* and the returned record; any exception gives null.
normalizeJob(item, feedUrl, feedName) ==
  LET guid == firstTruthy(<<Get(item, "guid"), Get(item, "id"), Get(item, "link")>>,
                          Str(synthGuid(feedUrl)))
      title == firstTruthy(<<Get(item, "title"), Get(item, "name"), Get(item, "job_title")>>,
                           Str(UntitledJob))
      description == firstTruthy(<<Get(item, "description"), Get(item, "summary"),
                                   Get(item, "content"), Get(item, "job_description")>>,
                                 Str(<<>>))
      company == firstTruthy(<<Get(item, "company"), Get(item, "employer"),
                               Get(item, "organization")>>, Str(UnknownCompany))
      location == firstTruthy(<<Get(item, "location"), Get(item, "city"), Get(item, "place")>>,
                              Str(<<>>))
      jobType == firstTruthy(<<Get(item, "job_type"), Get(item, "type"),
                               Get(item, "employment_type")>>, Str(<<>>))
      category == firstTruthy(<<Get(item, "category"), Get(item, "industry"),
                                Get(item, "job_category")>>, Str(<<>>))
      salary == firstTruthy(<<Get(item, "salary"), Get(item, "compensation")>>, Str(<<>>))
      url == firstTruthy(<<Get(item, "link"), Get(item, "url"), Get(item, "apply_url")>>,
                         Str(<<>>))
      dateSource == firstTruthy(<<Get(item, "pubDate"), Get(item, "published"),
                                  Get(item, "date")>>, UndefinedValue)
  IN IF \/ toStringThrows(dateSource)
        \/ toStringThrows(title) \/ toStringThrows(description)
        \/ \E v \in {guid, company, location, jobType, category, salary, url} :
             toStringThrows(v)
     THEN Null
     ELSE [guid |-> guid.s,
           title |-> trim(title.s),
           description |-> trim(description.s),
           company |-> trim(company.s),
           location |-> trim(location.s),
           jobType |-> trim(jobType.s),
           category |-> trim(category.s),
           salary |-> trim(salary.s),
           url |-> trim(url.s),
           pubDate |-> IF truthy(dateSource) THEN dateSource.s ELSE <<"n", "o", "w">>,
           sourceFeed |-> feedUrl,
           sourceName |-> feedName,
           tags |-> <<>>,
           isRemote |-> detectRemoteWork(title.s, description.s),
           experienceLevel |-> detectExperienceLevel(title.s, description.s),
           status |-> "active"]

\* An extractJobs whose loop ends at the first item that does not normalize.
RECURSIVE extractJobs_StopsAtFailure(_, _, _)
extractJobs_StopsAtFailure(items, feedUrl, feedName) ==
  IF items = <<>> THEN <<>>
  ELSE LET job == normalizeJob(Head(items), feedUrl, feedName)
       IN IF isNull(job) THEN <<>>
          ELSE <<job>> \o extractJobs_StopsAtFailure(Tail(items), feedUrl, feedName)

\* extractJobs: for (const item of items) { job = normalizeJob(...);
\* if (job) jobs.push(job) }, return jobs.
RECURSIVE extractJobs(_, _, _)
extractJobs(items, feedUrl, feedName) ==
  IF items = <<>> THEN <<>>
  ELSE LET job == normalizeJob(Head(items), feedUrl, feedName)
       IN (IF isNull(job) THEN <<>> ELSE <<job>>)
            \o extractJobs(Tail(items), feedUrl, feedName)

\* The first configured source.
FeedUrl == <<"h", "t", "t", "p", "s", ":", "/", "/", "j", "o", "b", "i", "c", "y">>
FeedName == <<"J", "o", "b", "i", "c", "y">>

\* Contents of the elements of an item.
GuidContents ==
  {NoElement, Text(<<>>), Text(<<" ">>), Text(<<"7">>), Text(<<" ", "7", " ">>), Children}
LinkContents == {NoElement, Text(<<"u">>)}
TitleContents ==
  {NoElement, Text(<<" ", "V", "P", " ", " ", "w", "f", "h">>), Text(<<" ", " ">>), Children}
DescriptionContents == {NoElement, Text(<<"d", " ">>)}

RawItems ==
  [guid : GuidContents, link : LinkContents, title : TitleContents,
   description : DescriptionContents]

Documents == UNION {[1..n -> RawItems] : n \in 0..MaxFeedItems}

\* fetchFeed has the document of a source and is about to parse it.
InitNormalize ==
  /\ isRunning = FALSE
  /\ currentImportId = NoId
  /\ pass = [p \in Passes |-> IdlePass]
  /\ importLogs = <<>>
  /\ jobs = <<>>
  /\ queue = <<>>
  /\ workers = [s \in Slots |-> IdleWorker]
  /\ events = <<>>
  /\ redelivered = 0
  /\ fetch = IdleFetch
  /\ lastQuery = NoQuery
  /\ \E document \in Documents :
       lastCall = [kind |-> "extract", pc |-> "parse", document |-> document,
                   items |-> <<>>, jobs |-> <<>>]

\* const parsedData = await this.parseXML(xmlData)
ParseXML ==
  /\ lastCall.kind = "extract" /\ lastCall.pc = "parse"
  /\ lastCall' = [lastCall EXCEPT !.pc = "extract", !.items = parseXML(lastCall.document)]
  /\ UNCHANGED <<isRunning, currentImportId, pass, importLogs, jobs, queue, workers,
                 events, redelivered, fetch, lastQuery>>

\* const jobs = this.extractJobs(parsedData, feedUrl, feedName)
ExtractJobs ==
  /\ lastCall.kind = "extract" /\ lastCall.pc = "extract"
  /\ lastCall' = [lastCall EXCEPT !.pc = "done",
                                  !.jobs = extractJobs(lastCall.items, FeedUrl, FeedName)]
  /\ UNCHANGED <<isRunning, currentImportId, pass, importLogs, jobs, queue, workers,
                 events, redelivered, fetch, lastQuery>>

NextNormalize ==
  \/ ParseXML
  \/ ExtractJobs

SpecNormalize == InitNormalize /\ [][NextNormalize]_vars

\* ----------------------------------- startServer and CronService.initialize
\* Ticks of the scheduled task and calls of the restart route that are followed.
MaxTicks == 2
MaxRestarts == 1

\* process.env.CRON_SCHEDULE: <<>> when unset, <<expression>> when set.
DefaultSchedule == "0 * * * *"
CronEnv == {<<>>, <<"">>, <<"*/5 * * * *">>, <<"every hour">>, <<"61 * * * *">>}

\* process.env.CRON_SCHEDULE || '0 * * * *'
cronScheduleOf(env) == IF env = <<>> \/ env[1] = "" THEN DefaultSchedule ELSE env[1]

\* cron.validate over the expressions used here.
validate(expression) == expression \in {"0 * * * *", "*/5 * * * *"}

InvalidScheduleMsg == "Invalid cron schedule"

\* The fields of the CronService object.
NewCronService == [cronJob |-> "null", isRunning |-> FALSE]

\* An initialize that schedules the expression without validating it.
initialize_NoValidate(service, env) ==
  [threw |-> "", service |-> [cronJob |-> "started", isRunning |-> TRUE]]

\* CronService.initialize: throws for an invalid expression before anything is
\* scheduled, otherwise creates the task, starts it and sets isRunning.
initialize(service, env) ==
  IF ~validate(cronScheduleOf(env))
  THEN [threw |-> InvalidScheduleMsg, service |-> service]
  ELSE [threw |-> "", service |-> [cronJob |-> "started", isRunning |-> TRUE]]

\* CronService.stop
stop(service) ==
  IF service.cronJob # "null" THEN [cronJob |-> "stopped", isRunning |-> FALSE] ELSE service

\* The process before startServer runs.
InitServer ==
  /\ isRunning = FALSE
  /\ currentImportId = NoId
  /\ pass = [p \in Passes |-> IdlePass]
  /\ importLogs = <<>>
  /\ jobs = <<>>
  /\ queue = <<>>
  /\ workers = [s \in Slots |-> IdleWorker]
  /\ events = <<>>
  /\ redelivered = 0
  /\ fetch = IdleFetch
  /\ lastQuery = NoQuery
  /\ \E env \in CronEnv :
       lastCall = [kind |-> "server", pc |-> "db", env |-> env, db |-> "pending",
                   redis |-> "pending", importer |-> "pending",
                   cron |-> NewCronService, logged |-> <<>>, ticks |-> 0,
                   scheduledImports |-> 0, restarts |-> 0, restartStatus |-> 0]

ServerUnchanged ==
  UNCHANGED <<isRunning, currentImportId, pass, importLogs, jobs, queue, workers,
              events, redelivered, fetch, lastQuery>>

\* await Promise.race([connectDB(), dbTimeout]) in its own try/catch.
ConnectDB ==
  /\ lastCall.kind = "server" /\ lastCall.pc = "db"
  /\ \E outcome \in {"ok", "failed"} :
       lastCall' = [lastCall EXCEPT !.pc = "redis", !.db = outcome]
  /\ ServerUnchanged

\* await Promise.race([connectRedis(), redisTimeout]) in its own try/catch.
ConnectRedis ==
  /\ lastCall.kind = "server" /\ lastCall.pc = "redis"
  /\ \E outcome \in {"ok", "failed"} :
       lastCall' = [lastCall EXCEPT !.pc = "import", !.redis = outcome]
  /\ ServerUnchanged

\* await importService.initialize() in its own try/catch.
InitializeImportService ==
  /\ lastCall.kind = "server" /\ lastCall.pc = "import"
  /\ \E outcome \in {"ok", "failed"} :
       lastCall' = [lastCall EXCEPT !.pc = "cron", !.importer = outcome]
  /\ ServerUnchanged

\* try { cronService.initialize() } catch (error) { logger.error(...) }: the
\* error is logged and startServer goes on.
InitializeCron ==
  /\ lastCall.kind = "server" /\ lastCall.pc = "cron"
  /\ LET r == initialize(lastCall.cron, lastCall.env)
     IN lastCall' = [lastCall EXCEPT
                       !.pc = "listen",
                       !.cron = r.service,
                       !.logged = IF r.threw = "" THEN @ ELSE Append(@, r.threw)]
  /\ ServerUnchanged

\* http.createServer, socketService.initialize, server.listen; an exception
\* here reaches the outer catch, which ends the process with exit code 1.
Listen ==
  /\ lastCall.kind = "server" /\ lastCall.pc = "listen"
  /\ \E next \in {"listening", "exited"} : lastCall' = [lastCall EXCEPT !.pc = next]
  /\ ServerUnchanged

\* The started task fires and its callback calls executeScheduledImport.
Tick ==
  /\ lastCall.kind = "server" /\ lastCall.pc = "listening"
  /\ lastCall.cron.cronJob = "started"
  /\ lastCall.ticks < MaxTicks
  /\ lastCall' = [lastCall EXCEPT !.ticks = @ + 1, !.scheduledImports = @ + 1]
  /\ ServerUnchanged

\* POST /api/import/cron/restart: cronService.restart() is stop() and then
\* initialize(); 200, or 500 when it throws.
RestartRoute ==
  /\ lastCall.kind = "server" /\ lastCall.pc = "listening"
  /\ lastCall.restarts < MaxRestarts
  /\ LET r == initialize(stop(lastCall.cron), lastCall.env)
     IN lastCall' = [lastCall EXCEPT
                       !.restarts = @ + 1,
                       !.cron = r.service,
                       !.logged = IF r.threw = "" THEN @ ELSE Append(@, r.threw),
                       !.restartStatus = IF r.threw = "" THEN 200 ELSE 500]
  /\ ServerUnchanged

NextServer ==
  \/ ConnectDB
  \/ ConnectRedis
  \/ InitializeImportService
  \/ InitializeCron
  \/ Listen
  \/ Tick
  \/ RestartRoute

SpecServer == InitServer /\ [][NextServer]_vars

\* ------------------------------------- regex fallback extraction, pass after pass
\* What the regexes of extractJobFromRawXML find in an <item> block: <<>> when
\* the pattern does not match, <<text>> when it does.
RawBlocks == [titleMatch : {<<>>, <<"">>, <<"t1">>}, descriptionMatch : {<<>>, <<"">>, <<"d1">>}]

\* extractJobFromRawXML: title and description from the matches or their
\* defaults, and a guid synthesized from the feed url, the clock and a random
\* draw; stamp stands for the pair of clock and draw, which does not repeat.
extractJobFromRawXML(block, feedUrl, stamp) ==
  [guid |-> stamp,
   title |-> IF block.titleMatch = <<>> THEN "Untitled Job" ELSE block.titleMatch[1],
   description |-> IF block.descriptionMatch = <<>> THEN "" ELSE block.descriptionMatch[1]]

\* extractJobsFromRawXML: one record per matched block, in document order.
extractJobsFromRawXML(blocks, feedUrl, stamp) ==
  [k \in 1..Len(blocks) |-> extractJobFromRawXML(blocks[k], feedUrl, stamp + k)]

\* The source answers every pass with the same unparsable payload; no pass has
\* run yet and the stores are empty.
InitFallback ==
  /\ isRunning = FALSE
  /\ currentImportId = NoId
  /\ pass = [p \in Passes |-> DonePass]
  /\ importLogs = <<>>
  /\ jobs = <<>>
  /\ queue = <<>>
  /\ workers = [s \in Slots |-> IdleWorker]
  /\ events = <<>>
  /\ lastCall = [kind |-> "manual", answer |-> "started", importId |-> NoId]
  /\ redelivered = 0
  /\ lastQuery = NoQuery
  /\ \E blocks \in SeqsUpTo(RawBlocks, MaxBatch) :
       fetch = [pc |-> "fallback", blocks |-> blocks, passes |-> 0, stamp |-> 0]

\* One pass over the source: fetchFeed ends in the fallback extraction and
\* returns success = (fallbackJobs.length > 0); processFeed then creates the
\* ImportLog and enqueues the batch, or throws when success is false.
FallbackPass ==
  /\ fetch.pc = "fallback"
  /\ fetch.passes < MaxPasses
  /\ LET batch == extractJobsFromRawXML(fetch.blocks, 1, fetch.stamp)
     IN /\ fetch' = [fetch EXCEPT !.passes = @ + 1, !.stamp = @ + Len(batch)]
        /\ IF batch = <<>>
           THEN UNCHANGED <<importLogs, queue>>
           ELSE /\ importLogs' = Append(importLogs,
                                        [NewImportLog(1, Len(batch))
                                           EXCEPT !.queueJobId = Len(queue) + 1])
                /\ queue' = Append(queue, Task(1, batch, Len(importLogs) + 1))
  /\ UNCHANGED <<isRunning, currentImportId, pass, jobs, workers, events, lastCall,
                 redelivered, lastQuery>>

NextFallback ==
  \/ FallbackPass
  \/ TakeWhenIdle
  \/ FindExisting(1)
  \/ SaveJob(1)
  \/ UpdateImportLog(1)

SpecFallback == InitFallback /\ [][NextFallback]_vars

\* ------------------------------------------------------- ImportService.stop
\* A stop() that clears the flag and keeps the id.
\* stop() calls made so far, kept in lastQuery.
MaxStops == 1

Stops == IF lastQuery.op = "stop" THEN lastQuery.calls ELSE 0

ImportServiceStop_FlagOnly ==
  /\ Stops < MaxStops
  /\ isRunning' = FALSE
  /\ lastQuery' = [op |-> "stop", calls |-> Stops + 1]
  /\ UNCHANGED <<currentImportId, pass, importLogs, jobs, queue, workers, events,
                 lastCall, redelivered, fetch>>

\* ImportService.stop: clears the flag and the id, whether or not a pass is in
\* progress; the pass itself goes on.
ImportServiceStop ==
  /\ Stops < MaxStops
  /\ isRunning' = FALSE
  /\ currentImportId' = NoId
  /\ lastQuery' = [op |-> "stop", calls |-> Stops + 1]
  /\ UNCHANGED <<pass, importLogs, jobs, queue, workers, events, lastCall,
                 redelivered, fetch>>

\* The route, the scheduler and the orchestrator, with stop() callable at any
\* time.
NextStop ==
  \/ PostStart
  \/ executeScheduledImport
  \/ \E p \in Passes : PassStep(p)
  \/ ImportServiceStop

SpecStop == Init /\ [][NextStop]_vars

\* The broker and the handler invocations keep taking steps: a waiting task is
\* delivered, an await in the handler settles, a backoff runs out.
FairSpecRetry == SpecRetry /\ WF_vars(NextRetry)

\* ------------------------------- CronService called in any order
\* Calls of initialize, stop and restart that are followed.
MaxCronCalls == 3

\* The CronService object, the started tasks it no longer refers to
\* (orphans), and the imports the tasks' callbacks have triggered.
InitCron ==
  /\ isRunning = FALSE
  /\ currentImportId = NoId
  /\ pass = [p \in Passes |-> IdlePass]
  /\ importLogs = <<>>
  /\ jobs = <<>>
  /\ queue = <<>>
  /\ workers = [s \in Slots |-> IdleWorker]
  /\ events = <<>>
  /\ redelivered = 0
  /\ fetch = IdleFetch
  /\ lastQuery = NoQuery
  /\ \E env \in CronEnv :
       lastCall = [kind |-> "cron-service", env |-> env, cron |-> NewCronService,
                   orphans |-> 0, calls |-> 0, op |-> "none", threw |-> "",
                   ticks |-> 0, scheduledImports |-> 0]

\* What one initialize() does to the process: this.cronJob is overwritten with
\* the new task; a started task it referred to is not stopped and stays
\* scheduled.
Initialized(c, op) ==
  LET r == initialize(c.cron, c.env)
  IN [c EXCEPT !.cron = r.service,
               !.orphans = IF r.threw = "" /\ c.cron.cronJob = "started" THEN @ + 1 ELSE @,
               !.calls = @ + 1, !.op = op, !.threw = r.threw]

\* cronService.initialize()
CallInitialize ==
  /\ lastCall.kind = "cron-service" /\ lastCall.calls < MaxCronCalls
  /\ lastCall' = Initialized(lastCall, "initialize")
  /\ ServerUnchanged

\* cronService.stop()
CallStop ==
  /\ lastCall.kind = "cron-service" /\ lastCall.calls < MaxCronCalls
  /\ lastCall' = [lastCall EXCEPT !.cron = stop(@), !.calls = @ + 1, !.op = "stop",
                                  !.threw = ""]
  /\ ServerUnchanged

\* cronService.restart(): stop() then initialize().
CallRestart ==
  /\ lastCall.kind = "cron-service" /\ lastCall.calls < MaxCronCalls
  /\ lastCall' = Initialized([lastCall EXCEPT !.cron = stop(@)], "restart")
  /\ ServerUnchanged

\* The schedules that fire: the task this.cronJob refers to when it is
\* started, and the orphans.
ActiveSchedules(c) == c.orphans + (IF c.cron.cronJob = "started" THEN 1 ELSE 0)

\* A started task fires and its callback calls executeScheduledImport.
ScheduleFires ==
  /\ lastCall.kind = "cron-service"
  /\ ActiveSchedules(lastCall) > 0
  /\ lastCall.ticks < MaxTicks
  /\ lastCall' = [lastCall EXCEPT !.ticks = @ + 1, !.scheduledImports = @ + 1,
                                  !.op = "tick"]
  /\ ServerUnchanged

NextCron ==
  \/ CallInitialize
  \/ CallStop
  \/ CallRestart
  \/ ScheduleFires

SpecCron == InitCron /\ [][NextCron]_vars

\* Weak fairness of the orchestrator's continuations: every awaited fetch, store
\* and enqueue call of a running pass eventually returns or fails.
FairSpecPass == SpecPass /\ WF_vars(\E p \in Passes : PassStep(p))

\* The 20 s timer of addJob is set before queue.add is awaited and the event
\* loop runs it when it is due; nothing is assumed of the broker's answers.
FairSpecEnqueue == SpecPass /\ WF_vars(\E p \in Passes : AddJobTimedOut(p))

\* =============================================================== properties
RunningPasses == {p \in Passes : InProgress(p)}

\* C1: at most one import pass is in progress at any time, and a startImport
\* call made while a pass runs answers 'Import is already running' and starts
\* no pass.
C1_AtMostOneRunning == Cardinality(RunningPasses) <= 1

C1_BusyWhileRunning ==
  (isRunning /\ lastCall' # lastCall /\ lastCall'.kind = "direct")
    => (lastCall'.answer = BusyMsg /\ RunningPasses' = RunningPasses)

C1_SinglePass == [](C1_AtMostOneRunning) /\ [][C1_BusyWhileRunning]_vars

C1_Witness ==
  /\ lastCall.kind = "direct" /\ lastCall.answer = BusyMsg
  /\ Cardinality(RunningPasses) = 1
  /\ \E p \in Passes : pass[p].pc = "done"

\* C4: every pass that starts eventually ends with isRunning = FALSE and
\* currentImportId = null.
C4_FlagEventuallyCleared ==
  \A p \in Passes :
    InProgress(p) ~> (pass[p].pc = "done" /\ ~isRunning /\ currentImportId = NoId)

C4_Witness ==
  \E p \in Passes : pass[p].pc = "done" /\ ~isRunning /\ currentImportId = NoId
                    /\ \E n \in 1..Len(pass[p].results) : ~pass[p].results[n].success

\* C5: a startImport call rejected because a pass is running creates or changes
\* no ImportLog, enqueues nothing, emits nothing and leaves isRunning and
\* currentImportId as they are.
C5_RejectedStep ==
  (lastCall' # lastCall /\ lastCall'.answer = BusyMsg)
    => UNCHANGED <<isRunning, currentImportId, pass, importLogs, jobs, queue, events>>

C5_RejectedStartChangesNothing == [][C5_RejectedStep]_vars

C5_Witness ==
  /\ lastCall.answer = BusyMsg
  /\ isRunning /\ currentImportId # NoId
  /\ Len(importLogs) > 0 /\ Len(queue) > 0

\* C6: in a pass every source is attempted exactly once and in configuration
\* order whatever fails; the summary has totalFeeds = number of sources and one
\* result per source in that order, a failed source with success = FALSE and an
\* error text, a successful one with the task queued for it.
C6_Attempts(p) ==
  /\ pass[p].fetches = [n \in 1..pass[p].i |-> n]
  /\ Len(pass[p].results) = pass[p].i - 1

C6_Summary(p) ==
  /\ pass[p].summary.totalFeeds = NumFeeds
  /\ pass[p].fetches = [n \in 1..NumFeeds |-> n]
  /\ Len(pass[p].results) = NumFeeds
  /\ \A n \in 1..NumFeeds :
       LET r == pass[p].results[n]
       IN /\ r.feed = n
          /\ ~r.success => r.error # ""
          /\ r.success => (r.queueJobId \in 1..Len(queue) /\ queue[r.queueJobId].feedUrl = n)

C6_EverySourceOnceInOrder ==
  \A p \in Passes :
    /\ InProgress(p) => C6_Attempts(p)
    /\ (pass[p].pc = "done" /\ pass[p].summary.importId # NoId) => C6_Summary(p)

C6_Witness ==
  \E p \in Passes :
    /\ pass[p].pc = "done" /\ Len(pass[p].results) = NumFeeds
    /\ ~pass[p].results[1].success
    /\ pass[p].results[NumFeeds].success

\* C2: the Job store never holds two records with the same
\* (sourceFeed, originalGuid), also when two handler invocations process the
\* same key at the same time.
C2_OneRecordPerKey ==
  \A m, n \in 1..Len(jobs) :
    (jobs[m].sourceFeed = jobs[n].sourceFeed /\ jobs[m].originalGuid = jobs[n].originalGuid)
      => m = n

\* C3: once an ImportLog's status has left 'running' it never changes again.
C3_TerminalStep ==
  \A l \in 1..Len(importLogs) :
    importLogs[l].status # "running" => importLogs'[l].status = importLogs[l].status

C3_TerminalStatusIsFinal == [][C3_TerminalStep]_vars

\* C7: the ImportLog of a source whose enqueue failed or timed out (the only path
\* that writes an error text) has status 'failed' from then on; the source's
\* result is success = FALSE with that error text and the later sources of the
\* pass are still walked.
C7_EnqueueFailureEndsFailed ==
  /\ \A l \in 1..Len(importLogs) :
       importLogs[l].error # "" => importLogs[l].status = "failed"
  /\ \A p \in Passes : \A n \in 1..Len(pass[p].results) :
       pass[p].results[n].error \in {TimeoutMsg, BrokerMsg}
         => (~pass[p].results[n].success /\ (InProgress(p) => pass[p].i = n + 1))

\* C8: every ImportLog has totalImported = newJobs + updatedJobs and
\* totalImported + |failedJobs| <= totalFetched, in every reachable state.
C8_CountsConsistent ==
  \A l \in 1..Len(importLogs) :
    /\ importLogs[l].totalImported = importLogs[l].newJobs + importLogs[l].updatedJobs
    /\ importLogs[l].totalImported + Len(importLogs[l].failedJobs)
         <= importLogs[l].totalFetched

C8_Witness ==
  \E t \in 1..Len(queue), u \in 1..Len(queue) :
    /\ queue[t].state = "completed" /\ queue[t].deliveries = 2
    /\ importLogs[queue[t].importLogId].updatedJobs = 1
    /\ importLogs[queue[t].importLogId].error # ""
    /\ queue[u].state = "completed"
    /\ Len(importLogs[queue[u].importLogId].failedJobs) = 1

\* Both queued tasks have been handled exactly once, one after the other.
BothHandledOnce ==
  /\ Quiet /\ Len(queue) = 2
  /\ \A t \in 1..2 : queue[t].state = "completed" /\ queue[t].deliveries = 1

\* Positions of the records stored under the key (feed, guid).
RecordsOf(feed, guid) ==
  {n \in 1..Len(jobs) : jobs[n].sourceFeed = feed /\ jobs[n].originalGuid = guid}

\* C9: an item with the same sourceFeed and guid handled in two successive
\* batches leaves exactly one record for the key; the first batch's ImportLog
\* has newJobs = 1 and updatedJobs = 0, the second has newJobs = 0,
\* updatedJobs = 1 and totalImported = 1.
C9_SecondBatchUpdates ==
  (/\ BothHandledOnce
   /\ queue[1].feedUrl = queue[2].feedUrl
   /\ Len(queue[1].jobData) = 1 /\ Len(queue[2].jobData) = 1
   /\ queue[1].jobData[1].guid = queue[2].jobData[1].guid)
    => /\ Cardinality(RecordsOf(queue[1].feedUrl, queue[1].jobData[1].guid)) = 1
       /\ importLogs[1].newJobs = 1 /\ importLogs[1].updatedJobs = 0
       /\ importLogs[2].newJobs = 0 /\ importLogs[2].updatedJobs = 1
       /\ importLogs[2].totalImported = 1

\* The keys a batch touches.
KeysOf(t) == {<<t.feedUrl, t.jobData[k].guid>> : k \in 1..Len(t.jobData)}

\* Two stores hold the same records, whatever the insertion order.
SameRecords(a, b) ==
  /\ Len(a) = Len(b)
  /\ \A n \in 1..Len(a) :
       Cardinality({m \in 1..Len(a) : a[m] = a[n]}) = Cardinality({m \in 1..Len(b) : b[m] = a[n]})

LeavesFetch(p) == pass[p].pc = "fetch" /\ pass'[p] # pass[p]

\* An ImportLog is created in this step.
LogCreated == Len(importLogs') = Len(importLogs) + 1

\* Pass p records a result with error text msg in this step.
RecordsFailure(p, msgs) ==
  /\ Len(pass'[p].results) = Len(pass[p].results) + 1
  /\ ~pass'[p].results[Len(pass'[p].results)].success
  /\ pass'[p].results[Len(pass'[p].results)].error \in msgs

\* What the step of pass p that leaves the fetch does: it either saves one new
\* ImportLog for the source (status 'running', totalFetched = batch size) with
\* nothing enqueued yet, or persists and enqueues nothing and records a failure.
C11_FetchStep(p) ==
  LeavesFetch(p) =>
    IF LogCreated
    THEN /\ pass[p].log = NoId
         /\ pass'[p].pc = "enqueue" /\ pass'[p].log = Len(importLogs')
         /\ importLogs'[Len(importLogs')] = NewImportLog(pass[p].i, Len(pass'[p].batch))
         /\ importLogs'[Len(importLogs')].status = "running"
         /\ SubSeq(importLogs', 1, Len(importLogs)) = importLogs
         /\ queue' = queue
    ELSE /\ RecordsFailure(p, {FetchMsg, StoreMsg})
         /\ UNCHANGED <<importLogs, queue, jobs>>

\* ImportLogs are created by that step only, and a task is enqueued only by a
\* pass that has created the source's ImportLog, carrying its id.
C11_OnlyThere ==
  /\ Len(importLogs') # Len(importLogs) => \E p \in Passes : LeavesFetch(p) /\ LogCreated
  /\ Len(queue') # Len(queue) =>
       \E p \in Passes :
         /\ pass[p].pc = "enqueue" /\ pass[p].log \in 1..Len(importLogs)
         /\ Len(queue') = Len(queue) + 1
         /\ queue'[Len(queue')].importLogId = pass[p].log
         /\ queue'[Len(queue')].feedUrl = importLogs[pass[p].log].sourceFeed
         /\ Len(queue'[Len(queue')].jobData) = importLogs[pass[p].log].totalFetched
         /\ importLogs[pass[p].log].status = "running"

\* C11 (as the code has it): an ImportLog is created for a source exactly when
\* its fetch succeeded and the save of the new ImportLog was accepted, at most
\* once per source, with status 'running' and totalFetched = batch size, before
\* the batch is enqueued; the enqueued task carries that ImportLog's id; a source
\* whose fetch failed or whose ImportLog was not saved persists and enqueues
\* nothing.
C11_LogCreatedBeforeEnqueue ==
  [][C11_OnlyThere /\ \A p \in Passes : C11_FetchStep(p)]_vars

\* C11 (as stated): an ImportLog is created for a source if and only if the
\* source's fetch succeeded.
C11_CreatedIffFetched ==
  [][\A p \in Passes : LeavesFetch(p) => (LogCreated <=> ~RecordsFailure(p, {FetchMsg}))]_vars

C11_Witness ==
  \E p \in Passes :
    /\ pass[p].pc = "saveJobId"
    /\ queue[pass[p].job].importLogId = pass[p].log
    /\ importLogs[pass[p].log].sourceFeed = pass[p].i
    /\ \E n \in 1..Len(pass[p].results) : pass[p].results[n].error = FetchMsg

\* A scheduler tick is handled in this step.
CronTick ==
  /\ lastCall'.kind = "cron"
  /\ \/ lastCall' # lastCall
     \/ /\ Len(events') = Len(events) + 2
        /\ events'[Len(events')].type = "cron-skipped"

\* C12: a scheduler tick that fires while a pass runs does not call startImport
\* (no import-started is emitted, nothing of the service changes), emits
\* cron-skipped, creates no ImportLog and enqueues nothing; a tick that fires
\* while no pass runs starts exactly one pass.
C12_TickStep ==
  CronTick =>
    IF isRunning
    THEN /\ lastCall'.answer = "skipped"
         /\ events' = events \o <<Event("cron-triggered", NoId, 0),
                                   Event("cron-skipped", NoId, 0)>>
         /\ UNCHANGED <<isRunning, currentImportId, pass, importLogs, queue, jobs>>
    ELSE /\ lastCall'.answer = "started"
         /\ RunningPasses = {} /\ Cardinality(RunningPasses') = 1
         /\ isRunning' /\ currentImportId' = lastCall'.importId
         /\ \A p \in RunningPasses' : pass'[p].trigger = "cron" /\ pass'[p].i = 1
         /\ UNCHANGED <<importLogs, queue, jobs>>

C12_TickSkipsOrStartsOne == [][C12_TickStep]_vars

C12_Witness ==
  /\ lastCall.kind = "cron" /\ lastCall.answer = "skipped"
  /\ events[Len(events)].type = "cron-skipped"
  /\ \E p \in Passes : InProgress(p) /\ pass[p].trigger = "cron" /\ pass[p].log # NoId

\* C13: the manual trigger answers in the step that handles the request: 409
\* when a pass is in progress, with nothing started; otherwise success with the
\* non-null importId of the pass it has just started, which is then still in
\* progress (at the fetch of its first source) and goes on in the background.
C13_ManualStep ==
  (lastCall' # lastCall /\ lastCall'.kind = "manual") =>
    IF RunningPasses # {}
    THEN /\ lastCall'.answer = "409"
         /\ UNCHANGED <<isRunning, currentImportId, pass, importLogs, queue, events>>
    ELSE /\ lastCall'.answer = "started"
         /\ lastCall'.importId # NoId
         /\ lastCall'.importId = currentImportId'
         /\ \E p \in Passes :
              /\ RunningPasses' = {p}
              /\ pass'[p].trigger = "manual" /\ pass'[p].pc = "fetch"
              /\ pass'[p].results = <<>>

C13_ManualAnswersAtOnce == [][C13_ManualStep]_vars

C13_Witness ==
  /\ lastCall.kind = "manual" /\ lastCall.answer = "409"
  /\ \E p \in Passes : InProgress(p) /\ pass[p].trigger = "manual" /\ currentImportId = p

\* The five counts of a stats answer are all zero.
AllZero(answer) == \A k \in DOMAIN ZeroStats : answer.value[k] = 0

\* The five counts of a stats answer are those of the queue.
TrueCounts(answer) ==
  \A n \in 1..Len(StatNames) :
    answer.value[StatNames[n]] = Cardinality(TasksIn(queue, StatNames[n]))

\* C14: getQueueStats of the queue service and of the import service never
\* throw; when the broker is unreachable, rejects a sub-query or is slower than
\* a sub-query's timeout, both return zero for all five counts (and the counts
\* of the queue otherwise); getImportStatus never throws and returns the flag
\* and the id.
C14_StatusQueriesNeverThrow ==
  /\ lastQuery.op = "stats" =>
       /\ ~lastQuery.ofQueueService.threw /\ ~lastQuery.ofImportService.threw
       /\ lastQuery.ofImportService = lastQuery.ofQueueService
       /\ IF lastQuery.cause = "none"
          THEN TrueCounts(lastQuery.ofQueueService)
          ELSE AllZero(lastQuery.ofQueueService)
  /\ lastQuery.op = "status" =>
       /\ ~lastQuery.answer.threw
       /\ lastQuery.answer.value.isRunning = isRunning
       /\ lastQuery.answer.value.currentImportId = currentImportId

C14_Witness ==
  /\ lastQuery.op = "stats" /\ lastQuery.cause = "slow"
  /\ AllZero(lastQuery.ofImportService)
  /\ TasksIn(queue, "active") # {} /\ TasksIn(queue, "completed") # {}
  /\ isRunning

\* C15: a stats answer that is all-zero because of a broker error carries a
\* field, beside the five counts, that marks the broker as unavailable.
C15_DegradedAnswerIsMarked ==
  (lastQuery.op = "stats" /\ lastQuery.cause # "none") =>
    /\ DOMAIN lastQuery.ofQueueService.value # DOMAIN ZeroStats
    /\ DOMAIN lastQuery.ofImportService.value # DOMAIN ZeroStats

\* The attempts of the fetchFeed call so far all failed.
AllAttemptsFailed == fetch.attempts = fetch.retries

\* C16: while attempts keep failing fetchFeed makes no more attempts than the
\* configured maximum (3 when MAX_RETRIES is unset or 0), every failed attempt
\* but the last is followed by one wait, the wait before retry number k is 2^k
\* seconds, and a call whose attempts all failed ends after exactly the
\* configured number of attempts with no wait after the last.
C16_RetriesWithBackoff ==
  fetch.pc # "idle" =>
    /\ fetch.env \in {<<>>, <<0>>} => fetch.maxRetries = 3
    /\ fetch.env \notin {<<>>, <<0>>} => fetch.maxRetries = fetch.env[1]
    /\ fetch.attempts <= fetch.maxRetries
    /\ \A k \in 1..Len(fetch.waits) : fetch.waits[k] = 2^k
    /\ fetch.pc \in {"request", "sleep"} =>
         AllAttemptsFailed /\ Len(fetch.waits) = fetch.attempts
    /\ fetch.pc = "done" => Len(fetch.waits) = fetch.attempts - 1
    /\ (fetch.pc = "done" /\ AllAttemptsFailed) => fetch.attempts = fetch.maxRetries

C16_Witness ==
  /\ fetch.pc = "done" /\ fetch.env = <<>>
  /\ AllAttemptsFailed /\ fetch.attempts = 3
  /\ fetch.waits = <<2, 4>>
  /\ ~fetch.result.value.success

\* Pass p has just recorded source i as failed with the given error text and
\* gone on: to the fetch of source i + 1, or to its end after the last source.
RecordedFailedAndWentOn(p, i, msg) ==
  /\ Len(pass'[p].results) = i
  /\ pass'[p].results[i] = Result(i, FALSE, msg, NoId)
  /\ IF i < NumFeeds
     THEN pass'[p].pc = "fetch" /\ pass'[p].i = i + 1 /\ isRunning'
     ELSE pass'[p].pc = "done" /\ ~isRunning'
  /\ UNCHANGED <<importLogs, queue, jobs>>

C18_BlocksGiveFallbackBatch ==
  (/\ fetch.pc = "done"
   /\ fetch.xmlData.string /\ fetch.xmlData.items = 0 /\ fetch.xmlData.blocks > 0) =>
    /\ fetch.result.value.success
    /\ fetch.result.value.usedFallback
    /\ fetch.result.value.totalFetched = fetch.xmlData.blocks

\* The handler in slot s is at item k of a batch of n items.
AtItem(s) == workers[s].phase \in {"find", "save"}

\* The step is the handler of slot s getting an exception for its item: from
\* findOne, from validation, or from the write of save().
ItemThrows(s) ==
  /\ AtItem(s)
  /\ workers'[s].task = workers[s].task
  /\ Len(workers'[s].failedJobs) = Len(workers[s].failedJobs) + 1

\* C19: an exception for one item of the batch (from the lookup, the validation
\* or the save) stays in the handler: the item's guid and title are appended to
\* failedJobs with a reason and the error text, processed is unchanged, the loop
\* goes on with the next item (or, after the last, to the ImportLog update), and
\* when the tallies of a batch of n items are written, totalImported + the
\* number of failedJobs = n.
C19_ItemFailureIsCountedAndSkipped ==
  /\ [][\A s \in Slots :
          ItemThrows(s) =>
            LET w == workers[s]
                n == Len(queue[w.task].jobData)
                item == queue[w.task].jobData[w.k]
                entry == workers'[s].failedJobs[Len(workers'[s].failedJobs)]
            IN /\ entry.guid = item.guid /\ entry.title = item.title
               /\ entry.reason # "" /\ entry.error \in {ValidationMsg, StoreMsg}
               /\ workers'[s].processed = w.processed
               /\ workers'[s].k = w.k + 1
               /\ workers'[s].phase = IF w.k < n THEN "find" ELSE "log"
               /\ queue' = queue /\ importLogs' = importLogs]_vars
  /\ [](\A s \in Slots :
          workers[s].phase = "log" =>
            workers[s].processed + Len(workers[s].failedJobs)
              = Len(queue[workers[s].task].jobData))
  /\ [](\A l \in 1..Len(importLogs) :
          importLogs[l].status = "completed" =>
            \A t \in 1..Len(queue) :
              queue[t].importLogId = l =>
                importLogs[l].totalImported + Len(importLogs[l].failedJobs)
                  = Len(queue[t].jobData))

\* The first item of a batch of two failed at the lookup, the second was
\* inserted, and the tallies are in the ImportLog.
C19_Witness ==
  /\ Len(queue[1].jobData) = 2
  /\ importLogs[1].status = "completed"
  /\ importLogs[1].totalImported = 1
  /\ Len(importLogs[1].failedJobs) = 1
  /\ importLogs[1].failedJobs[1].guid = queue[1].jobData[1].guid
  /\ importLogs[1].failedJobs[1].error = StoreMsg
  /\ Len(jobs) = 1 /\ jobs[1].originalGuid = queue[1].jobData[2].guid

\* The ImportLog l gets its tallies or its status 'completed' in this step.
ResultsWritten(l) ==
  \/ importLogs'[l].status # importLogs[l].status /\ importLogs'[l].status = "completed"
  \/ importLogs'[l].totalImported # importLogs[l].totalImported
  \/ importLogs'[l].newJobs # importLogs[l].newJobs
  \/ importLogs'[l].updatedJobs # importLogs[l].updatedJobs
  \/ importLogs'[l].failedJobs # importLogs[l].failedJobs

\* The handler in slot s has been through every item of the batch of ImportLog l.
WalkedWholeBatch(s, l) ==
  /\ workers[s].task # NoId
  /\ queue[workers[s].task].importLogId = l
  /\ workers[s].phase = "log"
  /\ workers[s].k = Len(queue[workers[s].task].jobData) + 1

\* C20: an ImportLog gets status 'completed' and its tallies only in the step
\* of a handler that has been through every item of its batch, tallies and
\* status together; and while the first delivery of a batch is still at one of
\* its items, the ImportLog is not 'completed' and its tallies are still zero.
C20_CompletedOnlyAfterWholeBatch ==
  /\ [][\A l \in 1..Len(importLogs) :
          ResultsWritten(l) =>
            \E s \in Slots :
              /\ WalkedWholeBatch(s, l)
              /\ importLogs'[l] = writeResults(importLogs[l], workers[s])
              /\ workers'[s] = IdleWorker]_vars
  /\ [](\A s \in Slots :
          (AtItem(s) /\ redelivered = 0) =>
            LET log == importLogs[queue[workers[s].task].importLogId]
            IN /\ log.status = "running"
               /\ log.totalImported = 0 /\ log.failedJobs = <<>>)

\* The ImportLog of a batch of two is completed, both items inserted.
C20_Witness ==
  /\ Len(queue[1].jobData) = 2
  /\ queue[1].state = "completed" /\ queue[1].deliveries = 1
  /\ importLogs[1].status = "completed"
  /\ importLogs[1].newJobs = 2
  /\ Len(jobs) = 2

\* The paths of the item and the path of the Job document each one is for.
MergedPaths ==
  {<<"title", "title">>, <<"description", "description">>, <<"location", "location">>,
   <<"jobType", "type">>, <<"url", "applicationUrl">>}

\* C21: when the handler has saved an update, each path of the document whose
\* incoming value is empty has the value it had, each path whose incoming value
\* is non-empty has the incoming value, and sourceFeed, originalGuid, status and
\* views are as they were.
C21_MergeKeepsOrReplaces ==
  [][\A s \in Slots :
       (workers[s].phase = "save" /\ workers'[s].phase # "save") =>
         LET n == workers[s].found
             item == queue[workers[s].task].jobData[workers[s].k]
         IN /\ \A m \in MergedPaths :
                 jobs'[n][m[2]] = IF item[m[1]] # "" THEN item[m[1]] ELSE jobs[n][m[2]]
            /\ jobs'[n].sourceFeed = jobs[n].sourceFeed
            /\ jobs'[n].originalGuid = jobs[n].originalGuid
            /\ jobs'[n].status = jobs[n].status
            /\ jobs'[n].views = jobs[n].views]_vars

\* C22: a task whose handler throws is delayed and run again while it has been
\* attempted fewer than 3 times, the k-th delay being 2^k seconds (2, 4); the
\* third failed attempt puts it in the failed state with no further delay, and
\* a failed or completed task is not handed out again.
C22_RetriedUpToThreeTimes ==
  /\ [](\A t \in 1..Len(queue) :
          /\ queue[t].deliveries <= 3
          /\ \A k \in 1..Len(queue[t].delays) : queue[t].delays[k] = 2^k
          /\ queue[t].state = "delayed" =>
               Len(queue[t].delays) = queue[t].deliveries /\ queue[t].deliveries < 3
          /\ queue[t].state = "failed" =>
               queue[t].deliveries = 3 /\ queue[t].delays = <<2, 4>>)
  /\ [][\A t \in 1..Len(queue) :
          /\ queue[t].state \in {"failed", "completed"} => queue'[t] = queue[t]
          /\ (queue[t].state = "active" /\ queue'[t].state \notin {"active", "completed"}) =>
               queue'[t].state = IF queue[t].deliveries < 3 THEN "delayed" ELSE "failed"
          /\ queue[t].state = "delayed" => queue'[t].state \in {"delayed", "waiting"}]_vars

C22_Witness ==
  /\ queue[1].state = "failed" /\ queue[1].deliveries = 3 /\ queue[1].delays = <<2, 4>>
  /\ queue[2].state = "completed" /\ queue[2].deliveries = 2 /\ queue[2].delays = <<2>>
  /\ importLogs[1].status = "running" /\ importLogs[2].status = "completed"

\* The handler invocations running for the queue, over all Worker objects.
RunningInvocations ==
  UNION {workers.objects[o].running : o \in 1..Len(workers.objects)}

LiveWorkers == {o \in 1..Len(workers.objects) : ~workers.objects[o].closed}

\* C23: however often createWorker is called there is at most one live Worker
\* for the queue, a call made while there is one returns that Worker and builds
\* none, and no more than `concurrency` handler invocations run at a time.
C23_OneWorkerBoundsInvocations ==
  /\ [](/\ Cardinality(LiveWorkers) <= 1
        /\ workers.has <=> LiveWorkers # {}
        /\ Cardinality(RunningInvocations) <= Concurrency
        /\ RunningInvocations = {t \in 1..Len(queue) : queue[t].state = "active"})
  /\ [][(workers.has /\ workers'.calls = workers.calls + 1) =>
          /\ workers'.objects = workers.objects
          /\ workers'.returned \in LiveWorkers]_vars

\* createWorker has been called a second time for the queue, the one Worker
\* runs `concurrency` invocations and a further task waits.
C23_Witness ==
  /\ workers.calls >= 2 /\ Len(workers.objects) = 1
  /\ Cardinality(RunningInvocations) = Concurrency
  /\ \E t \in 1..Len(queue) : queue[t].state = "waiting"

\* C24: every addJob call ends, although the broker may never answer: the pass
\* that awaits it goes on with the returned task or with the error addJob threw.
C24_AddJobCompletes ==
  \A p \in Passes :
    (pass[p].pc = "enqueue") ~>
      \/ pass[p].pc = "saveJobId" /\ pass[p].job # NoId
      \/ pass[p].pc = "saveFailed" /\ pass[p].err \in {TimeoutMsg, BrokerMsg}

\* addJob threw its timeout error and the broker holds no task.
C24_Witness ==
  \E p \in Passes :
    /\ pass[p].pc = "saveFailed" /\ pass[p].err = TimeoutMsg
    /\ queue = <<>>

\* The lower-cased text the two heuristics look at.
DetectText == toLowerCase(lastCall.title \o <<" ">> \o lastCall.description)

\* C25: the tier is that of the first keyword group present, in the order
\* senior, executive, entry, mid, and 'mid' when no keyword is present.
C25_TierByPriority ==
  (lastCall.kind = "detect" /\ lastCall.done) =>
    lastCall.experienceLevel =
      IF includesAny(DetectText, seniorKeywords) THEN "senior"
      ELSE IF includesAny(DetectText, executiveKeywords) THEN "executive"
      ELSE IF includesAny(DetectText, entryKeywords) THEN "entry"
      ELSE "mid"

\* The eight keywords the remote heuristic is documented with.
DocumentedRemoteKeywords ==
  {<<"r", "e", "m", "o", "t", "e">>,
   <<"w", "o", "r", "k", " ", "f", "r", "o", "m", " ", "h", "o", "m", "e">>,
   <<"w", "f", "h">>,
   <<"t", "e", "l", "e", "c", "o", "m", "m", "u", "t", "e">>,
   <<"v", "i", "r", "t", "u", "a", "l">>,
   <<"h", "o", "m", "e", "-", "b", "a", "s", "e", "d">>,
   <<"a", "n", "y", "w", "h", "e", "r", "e">>,
   <<"d", "i", "s", "t", "r", "i", "b", "u", "t", "e", "d">>}

\* C26 as stated: the posting is remote exactly when one of the eight documented
\* keywords occurs, in any letter case, in the title and description joined.
C26_RemoteIffDocumentedKeyword ==
  (lastCall.kind = "detect" /\ lastCall.done) =>
    (lastCall.isRemote <=>
       \E keyword \in DocumentedRemoteKeywords : includes(DetectText, keyword))

\* C26 amended: the posting is remote exactly when one of the eight documented
\* keywords or the ninth keyword 'home based' occurs, in any letter case, in the
\* title and description joined by one space.
C26_RemoteIffKeyword ==
  (lastCall.kind = "detect" /\ lastCall.done) =>
    (lastCall.isRemote <=>
       \/ \E keyword \in DocumentedRemoteKeywords : includes(DetectText, keyword)
       \/ includes(DetectText, <<"h", "o", "m", "e", " ", "b", "a", "s", "e", "d">>))

\* A posting was found remote through a keyword that starts in the title and
\* ends in the description.
C26_Witness ==
  /\ lastCall.kind = "detect" /\ lastCall.done /\ lastCall.isRemote
  /\ lastCall.title = <<"W", "o", "r", "k", " ", "f", "r", "o", "m">>
  /\ lastCall.description = <<"h", "o", "m", "e">>

\* The string fields of a normalized record.
StringFields ==
  {"guid", "title", "description", "company", "location", "jobType", "category",
   "salary", "url", "sourceFeed", "sourceName"}

\* C27: every record that normalizeJob returned has a non-empty guid and
\* sourceFeed, and trimming any of its string fields gives the same value.
C27_RecordsTrimmed ==
  (lastCall.kind = "extract" /\ lastCall.pc = "done") =>
    \A k \in 1..Len(lastCall.jobs) :
      /\ lastCall.jobs[k].guid # <<>>
      /\ lastCall.jobs[k].sourceFeed # <<>>
      /\ \A f \in StringFields : trim(lastCall.jobs[k][f]) = lastCall.jobs[k][f]

\* The records of the items that normalize, in the order of the items.
NormalizedInOrder ==
  LET results == [i \in 1..Len(lastCall.items) |->
                    normalizeJob(lastCall.items[i], FeedUrl, FeedName)]
      kept(job) == "guid" \in DOMAIN job
  IN SelectSeq(results, kept)

\* C28: an item whose title cannot be converted to a string gives no record,
\* and extractJobs returns the records of exactly the items that normalize, in
\* the order of the feed.
C28_FailedItemsDropped ==
  (lastCall.kind = "extract" /\ lastCall.pc = "done") =>
    /\ \A i \in 1..Len(lastCall.items) :
         lastCall.items[i].title.t = "object" =>
           isNull(normalizeJob(lastCall.items[i], FeedUrl, FeedName))
    /\ lastCall.jobs = NormalizedInOrder
    /\ Len(lastCall.jobs) =
         Cardinality({i \in 1..Len(lastCall.items) :
                        /\ lastCall.items[i].title.t # "object"
                        /\ ~(lastCall.items[i].guid.t = "object")})

\* The first of two items failed to normalize and the record of the second was
\* returned.
C28_Witness ==
  /\ lastCall.kind = "extract" /\ lastCall.pc = "done"
  /\ Len(lastCall.items) = 2
  /\ lastCall.items[1].title.t = "object"
  /\ lastCall.items[2].guid = Str(<<"7">>)
  /\ Len(lastCall.jobs) = 1
  /\ lastCall.jobs[1].guid = <<"7">>

\* startServer is past its cron initialization with an invalid expression in
\* CRON_SCHEDULE.
InvalidScheduleTried ==
  /\ lastCall.kind = "server"
  /\ lastCall.pc \in {"listen", "listening", "exited"}
  /\ ~validate(cronScheduleOf(lastCall.env))

\* C29 as stated: with an invalid cron expression initialize fails, nothing is
\* scheduled, no tick triggers an import, and the server does not come up.
C29_InvalidScheduleFatal ==
  InvalidScheduleTried =>
    /\ lastCall.logged # <<>>
    /\ lastCall.cron = NewCronService
    /\ lastCall.scheduledImports = 0
    /\ lastCall.pc # "listening"

\* C29 amended: with an invalid cron expression every initialize call fails
\* with the 'Invalid cron schedule' error, nothing is scheduled and no tick
\* triggers an import; the restart route answers 500.
C29_InvalidScheduleNotScheduled ==
  InvalidScheduleTried =>
    /\ Len(lastCall.logged) = 1 + lastCall.restarts
    /\ \A n \in 1..Len(lastCall.logged) : lastCall.logged[n] = InvalidScheduleMsg
    /\ lastCall.cron = NewCronService
    /\ lastCall.ticks = 0 /\ lastCall.scheduledImports = 0
    /\ lastCall.restartStatus \in {0, 500}
    /\ (lastCall.restarts > 0 => lastCall.restartStatus = 500)

\* The server listens although the cron expression was invalid, and a restart
\* of the scheduler has failed as well.
C29_Witness ==
  /\ InvalidScheduleTried
  /\ lastCall.pc = "listening"
  /\ lastCall.logged = <<InvalidScheduleMsg, InvalidScheduleMsg>>
  /\ lastCall.restartStatus = 500
  /\ lastCall.cron.cronJob = "null"

\* The import events of the current window, as subscribers receive them (the
\* cron-status events left out).
ImportEvents ==
  LET ofImport(e) ==
        e.type \in {"import-started", "import-progress", "import-completed", "import-error"}
  IN SelectSeq(events, ofImport)

\* Position of the import-progress event of source i among ImportEvents, 0 if
\* there is none.
ProgressAt(i) ==
  LET hits == {n \in 1..Len(ImportEvents) :
                 /\ ImportEvents[n].type = "import-progress"
                 /\ ImportEvents[n].currentFeed = i}
  IN IF hits = {} THEN 0 ELSE CHOOSE n \in hits : \A m \in hits : n <= m

\* C30: the import events of a pass are one import-started, then the
\* import-progress of sources 1, 2, ... in order, each present from the moment
\* the fetch of its source is issued, then exactly one import-completed or
\* import-error once the pass has ended, all with the importId of the pass.
C30_EventOrder ==
  ImportEvents # <<>> =>
    LET n == Len(ImportEvents)
        progress == {k \in 1..n : ImportEvents[k].type = "import-progress"}
        ended == {k \in 1..n : ImportEvents[k].type \in {"import-completed", "import-error"}}
    IN \E p \in Passes :
         /\ pass[p].pc # "idle"
         /\ \A k \in 1..n : ImportEvents[k].importId = p
         /\ ImportEvents[1].type = "import-started"
         /\ \A k \in 2..n : ImportEvents[k].type # "import-started"
         /\ Cardinality(progress) = Len(pass[p].fetches)
         /\ \A i \in 1..Len(pass[p].fetches) :
              /\ pass[p].fetches[i] = i
              /\ ProgressAt(i) = i + 1
         /\ IF InProgress(p)
            THEN ended = {} /\ Len(pass[p].fetches) = pass[p].i
            ELSE ended = {n} /\ n = 2 + NumFeeds

\* Pass p is finalized in this step: the summary is returned, import-completed
\* is emitted and the finally block clears the flag.
Finalizes(p) == pass[p].pc # "done" /\ pass'[p].pc = "done"

FallbackAllHandled ==
  /\ fetch.pc = "fallback" /\ fetch.passes = MaxPasses
  /\ Quiet
  /\ \A t \in 1..Len(queue) : queue[t].state = "completed"

\* C32: fallback items get a fresh guid in every pass, so once the same payload
\* has been ingested in every pass, each pass has inserted a new Job for every
\* item it extracted and has recorded no update.
C32_FallbackInsertsEveryItem ==
  /\ \A t, u \in 1..Len(queue) : \A k \in 1..Len(queue[t].jobData) :
       \A m \in 1..Len(queue[u].jobData) :
         (t # u \/ k # m) => queue[t].jobData[k].guid # queue[u].jobData[m].guid
  /\ FallbackAllHandled =>
       /\ \A t \in 1..Len(queue) :
            /\ importLogs[queue[t].importLogId].updatedJobs = 0
            /\ importLogs[queue[t].importLogId].newJobs = Len(queue[t].jobData)
            /\ \A k \in 1..Len(queue[t].jobData) :
                 Cardinality(RecordsOf(1, queue[t].jobData[k].guid)) = 1
       /\ Len(jobs) = MaxPasses * Len(fetch.blocks)

\* Pass p starts in this step.
Starts(p) == pass[p].pc = "idle" /\ pass'[p].pc # "idle"

\* C33: while a pass is in progress the flag stays TRUE and the id stays that
\* pass's id whatever interleaves, stop() included; the flag and the id change
\* only in the step that starts a pass and in the step that ends that pass.
C33_FlagHeldDuringPass ==
  /\ [](\A p \in Passes : InProgress(p) => (isRunning /\ currentImportId = p))
  /\ [][(isRunning' # isRunning \/ currentImportId' # currentImportId)
          => \E p \in Passes :
               \/ Starts(p) /\ isRunning' /\ currentImportId' = p
               \/ Finalizes(p) /\ currentImportId = p /\ ~isRunning']_vars

\* C37: between operations, isRunning is TRUE exactly when currentImportId is
\* set.
C37_FlagIffId == isRunning <=> (currentImportId # NoId)

C37_Witness ==
  /\ \E p \in Passes : InProgress(p) /\ ~isRunning /\ currentImportId = NoId
  /\ \E p \in Passes : pass[p].pc = "done"

\* Events of one name received by the subscribers since the latest pass began
\* (the scheduler's events just before its startImport call included).
Received(type) == Cardinality({n \in 1..Len(events) : events[n].type = type})

\* C36: for every pass, however it was started, the subscribers receive exactly
\* one import-started, and exactly one import-completed once it has ended.
C36_OneStartedOneCompleted ==
  (\E p \in Passes : pass[p].pc # "idle") =>
    /\ Received("import-started") = 1
    /\ Received("import-completed") = (IF RunningPasses = {} THEN 1 ELSE 0)

\* C35: a source whose enqueue failed (its ImportLog carries the error and its
\* summary entry is success = false) has no JobRecord inserted or updated for
\* that pass: no handler invocation working on a task of that ImportLog has
\* saved a record, and the ImportLog counts none.
C35_FailedSourceWritesNothing ==
  \A l \in 1..Len(importLogs) :
    importLogs[l].error # "" =>
      /\ importLogs[l].newJobs = 0 /\ importLogs[l].updatedJobs = 0
      /\ \A s \in Slots :
           (workers[s].task # NoId /\ queue[workers[s].task].importLogId = l)
             => (workers[s].newJobs = 0 /\ workers[s].updatedJobs = 0)

\* C34: every ImportLog created with status 'running' eventually has status
\* 'completed' or 'failed', also when the handler throws at every attempt.
C34_RunningLogEventuallyCloses ==
  \A l \in 1..2 :
    (Len(importLogs) >= l /\ importLogs[l].status = "running")
      ~> (importLogs[l].status \in {"completed", "failed"})

\* C38: every value fetchFeed returns has totalFetched equal to the number of
\* jobs in its batch, and a value with success = false has an empty batch.
C38_TotalFetchedIsBatchLength ==
  fetch.pc = "done" =>
    /\ ~fetch.result.threw
    /\ fetch.result # Undefined
    /\ fetch.result.value.totalFetched = Len(fetch.result.value.jobs)
    /\ ~fetch.result.value.success => fetch.result.value.jobs = <<>>

C38_Witness ==
  /\ fetch.pc = "done"
  /\ ~fetch.result.value.success
  /\ fetch.result.value.jobs = <<>>
  /\ fetch.xmlData.string /\ fetch.xmlData.markup /\ fetch.xmlData.blocks = 0
  /\ fetch.attempts = fetch.maxRetries

\* The errors of an attempt that downloaded a payload.
PayloadErrors == {NotXmlMsg, NoMarkupMsg, ParseMsg}

\* C39: the fallback is applied only to the payload downloaded by the final
\* attempt: a call that ends by the fallback with success = true ended on an
\* attempt that got a payload, never on one that got no response.
C39_FallbackOnLastPayloadOnly ==
  (fetch.pc = "done" /\ ~fetch.result.threw /\ fetch.result # Undefined
     /\ fetch.result.value.usedFallback)
    => fetch.result.value.error \in PayloadErrors

\* C40: after any sequence of initialize, stop and restart at most one cron
\* schedule is active and isRunning is TRUE exactly when one is; a tick
\* triggers an import only while the service is running, so none after stop()
\* until the next initialize.
C40_OneScheduleAndStopHolds ==
  /\ [](/\ ActiveSchedules(lastCall) <= 1
        /\ lastCall.cron.isRunning <=> (ActiveSchedules(lastCall) = 1))
  /\ [][lastCall'.scheduledImports > lastCall.scheduledImports
          => lastCall.cron.isRunning]_vars

====
